---- MODULE Spec2Model ----
(***************************************************************************)
(* Model of the concurrent word-guessing game server (server.c).           *)
(*                                                                         *)
(* Execution contexts: the scheduler thread, the wordmaster session        *)
(* (player 0), the two guesser sessions (players 1 and 2) and the SIGINT   *)
(* handler.  Every critical section on game_mtx is one atomic action.      *)
(* Socket reads and writes touch no shared memory, so each is folded into  *)
(* the critical section that follows or precedes it.                       *)
(*                                                                         *)
(* The polling loops read shutting_down without the mutex at the top of    *)
(* every iteration.  An iteration that finds nothing to do changes         *)
(* nothing, so a context resting in its loop is one control state ("run"   *)
(* for the scheduler, "wait" for a session).  A context that comes back    *)
(* to the top of its loop after the flag was set leaves at once; a         *)
(* context already resting in the loop when the flag is set may have read  *)
(* the flag just before, and so may complete one more iteration or leave.  *)
(*                                                                         *)
(* Characters are ASCII codes and a line is a sequence of codes, so that   *)
(* case normalisation, prefix tests and truncation are computed as the C   *)
(* code computes them.                                                     *)
(***************************************************************************)
EXTENDS Integers, Sequences, FiniteSets, TLC

VARIABLES
    phase,                \* g_sh->phase
    connected,            \* g_sh->connected[0..2]
    current_turn,         \* g_sh->current_turn
    position_idx,         \* g_sh->position_idx
    guess_count_for_pos,  \* g_sh->guess_count_for_pos (the scheduler gate)
    score,                \* g_sh->score[1..2]
    pass_num,             \* g_sh->pass_num
    secret_word,          \* g_sh->secret_word as a C string (<<>> is "")
    display,              \* g_sh->display
    player_name,          \* g_sh->player_name[0..2]
    game_number,          \* g_sh->game_number
    shutting_down,        \* g_sh->shutting_down
    turn_sem,             \* value of g_sh->turn_sem[0..2]
    sched_pc,             \* position of scheduler_thread_main
    pc,                   \* position of each child_session
    loc,                  \* locals of child_guesser_loop that outlive a critical section
    sock,                 \* the last line each handler wrote to its own client
    applied,              \* guesses applied in the current match (observation only)
    last_guesser,         \* guesser of the last applied guess of the match, 0 if none
    gate_posts,           \* posts to a guesser gate since the last applied guess or the
                          \* start of the match, while it is in progress (observation only)
    probe,                \* one evaluation of a pure function (GuessSpec)
    score_table,          \* g_sh->score_table[1..2]: wins and name
    scores_file,          \* the text of scores.txt
    game_mtx,             \* holder of g_sh->game_mtx, or "free"
    mx_pc,                \* position of each context relative to its game_mtx sections
    last_write,           \* the last write to a field of shared_t (observation only)
    outq,                 \* g_sh->outq[0]: the slots of the wordmaster's outbound queue
    out_head,             \* g_sh->out_head[0]
    out_tail,             \* g_sh->out_tail[0]
    out_items,            \* value of g_sh->out_items[0]
    out_spaces,           \* value of g_sh->out_spaces[0]
    out_pc,               \* position of each caller of out_enqueue / out_drain_to_socket
    out_held,             \* messages written and not yet taken (observation only)
    out_calls,            \* number of calls of out_enqueue so far
    out_enq,              \* the messages in the order they were written to slots
                          \* (observation only)
    out_sent,             \* the lines the draining handler sent to its client
    logq,                 \* g_sh->logq: the slots of the logger queue
    log_head,             \* g_sh->log_head
    log_tail,             \* g_sh->log_tail
    log_items,            \* value of g_sh->log_items
    log_spaces,           \* value of g_sh->log_spaces
    log_pc,               \* position of each caller of log_enqueuef and of the logger thread
    log_calls,            \* number of calls of log_enqueuef so far
    log_enq,              \* the events in the order they were put into slots (observation only)
    log_file,             \* the lines of game.log written by this run
    lk_owner,             \* the context that holds each mutex of shared_t, or "free"
    lk_pc                 \* the mutexes each context holds and is about to take

shared == <<phase, connected, current_turn, position_idx, guess_count_for_pos,
            score, pass_num, secret_word, display, player_name, game_number>>

vars == <<phase, connected, current_turn, position_idx, guess_count_for_pos,
          score, pass_num, secret_word, display, player_name, game_number,
          shutting_down, turn_sem, sched_pc, pc, loc, sock, applied, last_guesser, gate_posts, probe,
          score_table, scores_file, game_mtx, mx_pc, last_write,
          outq, out_head, out_tail, out_items, out_spaces, out_pc, out_held,
          out_calls, out_enq, out_sent,
          logq, log_head, log_tail, log_items, log_spaces, log_pc, log_calls, log_enq,
          log_file, lk_owner, lk_pc>>

\* the parts of shared_t and of the parent that have a specification of their own
scorevars == <<score_table, scores_file>>
mutexvars == <<game_mtx, mx_pc, last_write>>
outvars == <<outq, out_head, out_tail, out_items, out_spaces, out_pc, out_held,
            out_calls, out_enq, out_sent>>
logvars == <<logq, log_head, log_tail, log_items, log_spaces, log_pc, log_calls, log_enq,
            log_file>>
lockvars == <<lk_owner, lk_pc>>
compvars == <<mutexvars, outvars, logvars, lockvars>>
\* what the steps of one component leave alone in the other components
offmutex == <<scorevars, outvars, logvars, lockvars>>
offout == <<scorevars, mutexvars, logvars, lockvars>>
offlog == <<scorevars, mutexvars, outvars, lockvars>>
offlock == <<scorevars, mutexvars, outvars, logvars>>

\* everything the game itself reads or writes
gamevars == <<shared, shutting_down, turn_sem, sched_pc, pc, loc, sock, applied,
              last_guesser, gate_posts>>

(***************************************************************************)
(* Program constants.                                                      *)
(***************************************************************************)
MAX_PLAYERS == 3
WORD_LEN == 5
NAME_LEN == 32
MAX_PASSES == 5

Players == 0 .. (MAX_PLAYERS - 1)
Guessers == {1, 2}

PHASE_WAITING_PLAYERS == "WaitingPlayers"
PHASE_WAITING_WORD == "WaitingWord"
PHASE_IN_PROGRESS == "InProgress"
PHASE_GAME_OVER == "GameOver"

(***************************************************************************)
(* Characters and lines.                                                   *)
(***************************************************************************)
Ord == [c \in {" ", "1", "A", "B", "D", "E", "G", "H", "I", "M", "N", "O", "R",
               "S", "U", "W", "Z", "_", "a", "b", "e", "r", "s", "u"} |->
         CASE c = " " -> 32 [] c = "1" -> 49 [] c = "A" -> 65 [] c = "B" -> 66
           [] c = "e" -> 101 [] c = "r" -> 114 [] c = "s" -> 115 [] c = "u" -> 117
           [] c = "D" -> 68 [] c = "E" -> 69 [] c = "G" -> 71 [] c = "H" -> 72
           [] c = "I" -> 73 [] c = "M" -> 77 [] c = "N" -> 78 [] c = "O" -> 79
           [] c = "R" -> 82 [] c = "S" -> 83 [] c = "U" -> 85 [] c = "W" -> 87
           [] c = "Z" -> 90 [] c = "_" -> 95 [] c = "a" -> 97 [] c = "b" -> 98]

Str(t) == [i \in 1 .. Len(t) |-> Ord[t[i]]]

Underscore == Ord["_"]

\* s + n for a C string s: the string that starts n characters further on
Skip(s, n) == IF n >= Len(s) THEN << >> ELSE SubSeq(s, n + 1, Len(s))

\* what snprintf(out, cap, "%s", s) and strncpy of a shorter string leave in out
Truncate(s, cap) == IF Len(s) <= cap - 1 THEN s ELSE SubSeq(s, 1, cap - 1)

\* strncmp(line, prefix, Len(prefix)) == 0
HasPrefix(line, prefix) ==
    /\ Len(line) >= Len(prefix)
    /\ SubSeq(line, 1, Len(prefix)) = prefix

\* if (c >= 'a' && c <= 'z') c = c - 'a' + 'A'
ToUpper(c) == IF c >= 97 /\ c <= 122 THEN c - 97 + 65 ELSE c

IsUpperAZ(c) == c >= 65 /\ c <= 90

\* variant: only the length of the word is tested
is_valid_word_length_only(w) == Len(w) = WORD_LEN

\* strlen(w) == WORD_LEN and every character in 'A' .. 'Z'
is_valid_word(w) ==
    /\ Len(w) = WORD_LEN
    /\ \A i \in 1 .. WORD_LEN : IsUpperAZ(w[i])

\* the buffer w of child_wordmaster_loop after the copy and the upper-casing loop
NormalizeWord(line) ==
    LET t == Truncate(Skip(line, 5), WORD_LEN + 1)
    IN  [i \in 1 .. Len(t) |-> ToUpper(t[i])]

parse_name_ok(line) == HasPrefix(line, Str(<<"N", "A", "M", "E", " ">>)) /\ Len(line) > 5

parse_name(line) == Truncate(Skip(line, 5), NAME_LEN)

\* variant: the scan never reports a fully revealed word
is_word_revealed_never(disp) == FALSE

\* is_word_revealed_locked, on the display as the caller has just updated it
is_word_revealed_locked(disp) == \A i \in 1 .. WORD_LEN : disp[i] # Underscore

AllUnderscore == [i \in 1 .. WORD_LEN |-> Underscore]

(***************************************************************************)
(* scores.txt: the text scores_save writes and what scores_load reads back *)
(* from a text.  A score table maps a slot to [wins, name].                *)
(***************************************************************************)
\* what printf("%d") writes for a non-negative int
RECURSIVE Digits(_)
Digits(n) == IF n < 10 THEN <<48 + n>> ELSE Digits(n \div 10) \o <<48 + (n % 10)>>

\* isspace
IsSpace(c) == c \in {9, 10, 11, 12, 13, 32}

IsDigit(c) == c >= 48 /\ c <= 57

\* the table scores_load sets up before it reads the file
DefaultName(pid) ==
    IF pid = 1 THEN Str(<<"G", "u", "e", "s", "s", "e", "r", "A">>)
    ELSE IF pid = 2 THEN Str(<<"G", "u", "e", "s", "s", "e", "r", "B">>)
    ELSE << >>

DefaultTable == [pid \in Players |-> [wins |-> 0, name |-> DefaultName(pid)]]

\* fprintf(f, "%d %d %s\n", pid, wins, name[0] ? name : default)
ScoreLine(pid, e) ==
    Digits(pid) \o <<32>> \o Digits(e.wins) \o <<32>>
        \o (IF e.name # << >> THEN e.name ELSE DefaultName(pid)) \o <<10>>

\* the text scores_save leaves in the file
scores_save(table) == ScoreLine(1, table[1]) \o ScoreLine(2, table[2])

\* fscanf: white space before a conversion is skipped
RECURSIVE SkipSpace(_)
SkipSpace(t) == IF t # << >> /\ IsSpace(t[1]) THEN SkipSpace(Skip(t, 1)) ELSE t

\* number of leading digits of t
RECURSIVE DigitSpan(_)
DigitSpan(t) == IF t # << >> /\ IsDigit(t[1]) THEN 1 + DigitSpan(Skip(t, 1)) ELSE 0

\* number of leading non-space characters of t, at most cap
RECURSIVE WordSpan(_, _)
WordSpan(t, cap) ==
    IF cap > 0 /\ t # << >> /\ ~IsSpace(t[1]) THEN 1 + WordSpan(Skip(t, 1), cap - 1) ELSE 0

\* value of a sequence of digits
RECURSIVE ToInt(_)
ToInt(d) == IF d = << >> THEN 0 ELSE 10 * ToInt(SubSeq(d, 1, Len(d) - 1)) + (d[Len(d)] - 48)

\* the conversion %d on unsigned input: ok is FALSE on a matching failure
ScanInt(t) ==
    LET u == SkipSpace(t)
        n == DigitSpan(u)
    IN  [ok |-> n > 0, val |-> ToInt(SubSeq(u, 1, n)), rest |-> Skip(u, n)]

\* the conversion %31s
ScanWord(t) ==
    LET u == SkipSpace(t)
        n == WordSpan(u, NAME_LEN - 1)
    IN  [ok |-> n > 0, val |-> SubSeq(u, 1, n), rest |-> Skip(u, n)]

\* while (fscanf(f, "%d %d %31s", &pid, &wins, name) == 3) { ... }
RECURSIVE LoadLoop(_, _)
LoadLoop(t, table) ==
    LET a == ScanInt(t)
        b == ScanInt(a.rest)
        c == ScanWord(b.rest)
    IN  IF ~(a.ok /\ b.ok /\ c.ok) THEN table
        ELSE LoadLoop(c.rest,
                      IF a.val >= 0 /\ a.val < MAX_PLAYERS
                      THEN [table EXCEPT ![a.val] =
                              [wins |-> b.val, name |-> Truncate(c.val, NAME_LEN)]]
                      ELSE table)

\* the table scores_load leaves in shared memory when the file exists
scores_load(text) == LoadLoop(text, DefaultTable)

\* the table after the end-of-match update for a winner (0 on a draw)
UpdateWins(table, winner, names) ==
    IF winner = 0 THEN table
    ELSE [table EXCEPT ![winner] =
            [wins |-> @.wins + 1,
             name |-> IF names[winner] # << >> THEN Truncate(names[winner], NAME_LEN)
                      ELSE @.name]]

\* main: scores_load("scores.txt") on a file a previous run has left
InitScores ==
    /\ scores_file = scores_save(DefaultTable)
    /\ score_table = scores_load(scores_file)

(***************************************************************************)
(* game_mtx: the critical sections of each context and the fields each     *)
(* writes, in program order.  A context is the scheduler thread, a child   *)
(* session or the parent ("main", with its SIGINT handler).                *)
(***************************************************************************)
Contexts == {"sched", "main", "wordmaster", "guesser1", "guesser2"}

\* the fields of the shared game state
GameFields == {"phase", "secret_word", "display", "current_turn", "position_idx",
               "pass_num", "score", "guess_count_for_pos", "connected", "player_name"}

\* sections between pthread_mutex_lock(&g_sh->game_mtx) and the matching unlock
SchedSections ==
    { [sec |-> "waiting_players",
       writes |-> <<"phase", "game_number", "current_turn", "guess_count_for_pos">>],
      [sec |-> "waiting_word", writes |-> << >>],
      [sec |-> "force_game_over", writes |-> <<"phase">>],
      [sec |-> "turn_gate", writes |-> <<"current_turn", "guess_count_for_pos">>],
      [sec |-> "game_over",
       writes |-> <<"position_idx", "guess_count_for_pos", "score", "display",
                    "current_turn", "pass_num", "secret_word", "phase",
                    "current_turn", "guess_count_for_pos">>] }

SessionSections ==
    { [sec |-> "connect", writes |-> <<"connected", "player_name">>],
      [sec |-> "epilogue", writes |-> <<"connected">>] }

WordmasterSections ==
    { [sec |-> "check", writes |-> << >>],
      [sec |-> "recv_failed", writes |-> <<"connected">>],
      [sec |-> "accept",
       writes |-> <<"secret_word", "position_idx", "pass_num", "current_turn",
                    "guess_count_for_pos", "phase">>] }

GuesserSections ==
    { [sec |-> "check", writes |-> << >>],
      [sec |-> "prompt_failed", writes |-> <<"connected", "guess_count_for_pos">>],
      [sec |-> "recv_failed", writes |-> <<"connected", "guess_count_for_pos">>],
      [sec |-> "race_recheck", writes |-> << >>],
      [sec |-> "race_release", writes |-> <<"guess_count_for_pos">>],
      [sec |-> "apply",
       writes |-> <<"score", "display", "position_idx", "pass_num", "phase",
                    "current_turn", "guess_count_for_pos">>] }

Sections(c) ==
    IF c = "sched" THEN SchedSections
    ELSE IF c = "main" THEN {}
    ELSE IF c = "wordmaster" THEN SessionSections \cup WordmasterSections
    ELSE SessionSections \cup GuesserSections

\* fields of shared_t a context writes outside every game_mtx section
UnlockedWrites(c) == IF c = "main" THEN {"shutting_down"} ELSE {}

InitMutex ==
    /\ game_mtx = "free"
    /\ mx_pc = [c \in Contexts |-> [at |-> "out"]]
    /\ last_write = [ctx |-> "none", field |-> "none", held |-> FALSE]

(***************************************************************************)
(* The outbound queue of one player (slot 0): the guessers enqueue for it, *)
(* its own handler drains it.  The queues of the three slots are           *)
(* independent and alike.                                                  *)
(***************************************************************************)
\* stands for OUTQ_CAP (256), small enough for the queue to fill up
OutCap == 2

\* calls of out_enqueue in one run of the queue
MaxOutCalls == 5

\* the lines a guesser enqueues for the other players
OutMessages == {"STATE", "GAME_OVER"}

OutIdle(last) == [at |-> "idle", last |-> last]

InitOut ==
    /\ outq = [i \in 0 .. (OutCap - 1) |-> ""]
    /\ out_head = 0
    /\ out_tail = 0
    /\ out_items = 0
    /\ out_spaces = OutCap
    /\ out_pc = [p \in Players |-> OutIdle("none")]
    /\ out_held = 0
    /\ out_calls = 0
    /\ out_enq = << >>
    /\ out_sent = << >>

(***************************************************************************)
(* The logger queue: the parent, the scheduler thread and a child session  *)
(* call log_enqueuef, the logger thread writes the events to game.log.     *)
(***************************************************************************)
\* stands for LOGQ_CAP (1024), small enough for the queue to fill up
LogCap == 2

\* calls of log_enqueuef by the scheduler and the session in one run
MaxLogCalls == 3

LogProducers == {"main", "sched", "session"}

NoEvent == [src |-> "none", n |-> 0]

\* log_enqueuef("Server starting on port %u.", ...), before the threads exist
StartEvent == [src |-> "main", n |-> 0]

LogAt(at, ev) == [at |-> at, ev |-> ev]

InitLog ==
    /\ logq = [i \in 0 .. (LogCap - 1) |-> IF i = 0 THEN StartEvent ELSE NoEvent]
    /\ log_head = 0
    /\ log_tail = 1 % LogCap
    /\ log_items = 1
    /\ log_spaces = LogCap - 1
    /\ log_pc = [c \in LogProducers \cup {"logger"} |->
                    IF c = "logger" THEN LogAt("check", NoEvent) ELSE LogAt("idle", NoEvent)]
    /\ log_calls = 0
    /\ log_enq = <<StartEvent>>
    /\ log_file = <<>>

(***************************************************************************)
(* The four kinds of mutex of shared_t and the order each context takes    *)
(* them in.  A nest is the list of mutexes of one stretch of code, from    *)
(* the first pthread_mutex_lock to the unlock that leaves none held, in    *)
(* the order they are locked; they are unlocked in the reverse order.      *)
(***************************************************************************)
Mutexes == {"game", "score", "log", "out0", "out1", "out2"}

LockContexts == Contexts \cup {"logger"}

\* variant: the guesser records the win inside its game_mtx section
Nests_ScoreUnderGame(c) ==
    CASE c = "sched" -> {<<"game">>, <<"game", "log">>}
      [] c = "wordmaster" -> {<<"out0">>, <<"game">>, <<"game", "log">>, <<"log">>}
      [] c = "guesser1" -> {<<"out1">>, <<"game">>, <<"out0">>, <<"out2">>, <<"log">>,
                            <<"game", "score">>}
      [] c = "guesser2" -> {<<"out2">>, <<"game">>, <<"out0">>, <<"out1">>, <<"log">>,
                            <<"game", "score">>}
      [] c = "main" -> {<<"score">>, <<"log">>}
      [] c = "logger" -> {<<"log">>}

\* scheduler_thread_main calls log_enqueuef inside its game_mtx section, and
\* so does child_wordmaster_loop when it accepts the word; every other call of
\* log_enqueuef, out_enqueue, out_drain_to_socket, scores_load and scores_save
\* and the score_mtx section of the guesser are made with no mutex held
Nests(c) ==
    CASE c = "sched" -> {<<"game">>, <<"game", "log">>}
      [] c = "wordmaster" -> {<<"out0">>, <<"game">>, <<"game", "log">>, <<"log">>}
      [] c = "guesser1" -> {<<"out1">>, <<"game">>, <<"out0">>, <<"out2">>, <<"log">>,
                            <<"score">>}
      [] c = "guesser2" -> {<<"out2">>, <<"game">>, <<"out0">>, <<"out1">>, <<"log">>,
                            <<"score">>}
      [] c = "main" -> {<<"score">>, <<"log">>}
      [] c = "logger" -> {<<"log">>}

LkIdle == [held |-> << >>, want |-> << >>]

InitLock ==
    /\ lk_owner = [m \in Mutexes |-> "free"]
    /\ lk_pc = [c \in LockContexts |-> LkIdle]

(***************************************************************************)
(* Bounds: the lines a client may send.                                    *)
(***************************************************************************)
NameLines ==
    { Str(<<"N", "A", "M", "E", " ", "A", " ", "B">>),
      Str(<<"H", "I">>) }

WordLines ==
    { Str(<<"W", "O", "R", "D", " ", "A", "B", "A", "B", "A">>),
      Str(<<"W", "O", "R", "D", " ", "a", "b", "a", "b", "a">>),
      Str(<<"W", "O", "R", "D", " ", "A", "B">>),
      Str(<<"W", "O", "R", "D", " ", "A", "B", "1", "B", "A">>),
      Str(<<"W", "O", "R", "D", " ", "A", "B", "A", "B", "A", "B">>),
      Str(<<"H", "I">>) }

GuessLines ==
    { Str(<<"G", "U", "E", "S", "S", " ", "A">>),
      Str(<<"G", "U", "E", "S", "S", " ", "b">>),
      Str(<<"G", "U", "E", "S", "S", " ", "Z">>),
      Str(<<"G", "U", "E", "S", "S", " ", "1">>),
      Str(<<"G", "U", "E", "S", "S", " ">>),
      Str(<<"G", "U", "E", "S", "S", " ", "A", "B">>),
      Str(<<"H", "I">>) }

\* SIGINT arrives before a win is recorded and while at most this many guesses
\* of the match are applied
ShutdownWindow == 2

\* a match starts only while fewer wins than this are recorded or about to be
MaxWins == 1

TableWins == score_table[1].wins + score_table[2].wins

\* handlers in the is_game_over block with a win still to record
PendingWins == Cardinality({p \in Guessers : pc[p] = "over" /\ loc[p].s1 # loc[p].s2})

NoLoc == [k |-> "none"]
NoProbe == [result |-> "none"]

\* a line of the protocol that carries no fields the model looks at
Line(kind) == [kind |-> kind]

(***************************************************************************)
(* Initial state: shm_init_or_attach(true), three children forked.         *)
(***************************************************************************)
InitGame ==
    /\ phase = PHASE_WAITING_PLAYERS
    /\ connected = [p \in Players |-> FALSE]
    /\ current_turn = 0
    /\ position_idx = 0
    /\ guess_count_for_pos = 0
    /\ score = [p \in Players |-> 0]
    /\ pass_num = 0
    /\ secret_word = << >>
    /\ display = AllUnderscore
    /\ player_name = [p \in Players |-> << >>]
    /\ game_number = 0
    /\ shutting_down = FALSE
    /\ turn_sem = [p \in Players |-> 0]
    /\ sched_pc = "run"
    /\ pc = [p \in Players |-> "session"]
    /\ loc = [p \in Players |-> NoLoc]
    /\ sock = [p \in Players |-> Line("WELCOME")]
    /\ applied = 0
    /\ last_guesser = 0
    /\ gate_posts = 0
    /\ InitScores
    /\ InitMutex
    /\ InitOut
    /\ InitLog
    /\ InitLock

Init ==
    /\ InitGame
    /\ probe = NoProbe

(***************************************************************************)
(* SIGINT.                                                                 *)
(***************************************************************************)
sigint_handler ==
    /\ ~shutting_down
    /\ TableWins * WORD_LEN * MAX_PASSES + pass_num * WORD_LEN + position_idx
           <= ShutdownWindow
    /\ shutting_down' = TRUE
    /\ UNCHANGED <<shared, turn_sem, sched_pc, pc, loc, sock, applied, last_guesser, gate_posts,
                   probe, scorevars, compvars>>

(***************************************************************************)
(* scheduler_thread_main: one action per branch of the loop body, each     *)
(* followed by the next evaluation of the loop condition.                  *)
(***************************************************************************)
SchedLoop == IF shutting_down THEN "done" ELSE "run"

\* the loop condition sees the flag
SchedExit ==
    /\ sched_pc = "run"
    /\ shutting_down
    /\ sched_pc' = "done"
    /\ UNCHANGED <<shared, shutting_down, turn_sem, pc, loc, sock, applied, last_guesser, gate_posts,
                   probe, scorevars, compvars>>

\* variant: the match is opened as soon as the wordmaster and one guesser are there
SchedWaitingPlayers_Early ==
    /\ sched_pc = "run"
    /\ phase = PHASE_WAITING_PLAYERS
    /\ IF connected[0] /\ connected[1]
       THEN /\ phase' = PHASE_WAITING_WORD
            /\ game_number' = game_number + 1
            /\ current_turn' = 0
            /\ guess_count_for_pos' = 0
            /\ turn_sem' = [turn_sem EXCEPT ![0] = @ + 1]
       ELSE UNCHANGED <<phase, game_number, current_turn, guess_count_for_pos, turn_sem>>
    /\ sched_pc' = SchedLoop
    /\ UNCHANGED <<connected, position_idx, score, pass_num, secret_word, display,
                   player_name, shutting_down, pc, loc, sock, applied, last_guesser, gate_posts,
                   probe, scorevars, compvars>>

\* phase == PHASE_WAITING_PLAYERS
SchedWaitingPlayers ==
    /\ sched_pc = "run"
    /\ phase = PHASE_WAITING_PLAYERS
    /\ IF connected[0] /\ connected[1] /\ connected[2]
       THEN /\ phase' = PHASE_WAITING_WORD
            /\ game_number' = game_number + 1
            /\ current_turn' = 0
            /\ guess_count_for_pos' = 0
            /\ turn_sem' = [turn_sem EXCEPT ![0] = @ + 1]
       ELSE UNCHANGED <<phase, game_number, current_turn, guess_count_for_pos, turn_sem>>
    /\ sched_pc' = SchedLoop
    /\ UNCHANGED <<connected, position_idx, score, pass_num, secret_word, display,
                   player_name, shutting_down, pc, loc, sock, applied, last_guesser, gate_posts,
                   probe, scorevars, compvars>>

\* variant: the scheduler looks at the wordmaster's slot and goes back to
\* waiting for players when it is disconnected
SchedWaitingWord_Inspect ==
    /\ sched_pc = "run"
    /\ phase = PHASE_WAITING_WORD
    /\ phase' = IF connected[0] THEN phase ELSE PHASE_WAITING_PLAYERS
    /\ sched_pc' = SchedLoop
    /\ UNCHANGED <<connected, current_turn, position_idx, guess_count_for_pos, score,
                   pass_num, secret_word, display, player_name, game_number,
                   shutting_down, turn_sem, pc, loc, sock, applied, last_guesser,
                   gate_posts, probe, scorevars, compvars>>

\* phase == PHASE_WAITING_WORD
SchedWaitingWord ==
    /\ sched_pc = "run"
    /\ phase = PHASE_WAITING_WORD
    /\ sched_pc' = SchedLoop
    /\ UNCHANGED <<shared, shutting_down, turn_sem, pc, loc, sock, applied, last_guesser, gate_posts,
                   probe, scorevars, compvars>>

\* variant: GameOver is forced whether or not a guesser slot is disconnected
SchedForceGameOver_Always ==
    /\ sched_pc = "run"
    /\ phase = PHASE_IN_PROGRESS
    /\ phase' = PHASE_GAME_OVER
    /\ gate_posts' = 0
    /\ sched_pc' = SchedLoop
    /\ UNCHANGED <<connected, current_turn, position_idx, guess_count_for_pos, score,
                   pass_num, secret_word, display, player_name, game_number,
                   shutting_down, turn_sem, pc, loc, sock, applied, last_guesser, probe,
                   scorevars, compvars>>

\* phase == PHASE_IN_PROGRESS, a guesser slot is disconnected
SchedForceGameOver ==
    /\ sched_pc = "run"
    /\ phase = PHASE_IN_PROGRESS
    /\ ~connected[1] \/ ~connected[2]
    /\ phase' = PHASE_GAME_OVER
    /\ gate_posts' = 0
    /\ sched_pc' = SchedLoop
    /\ UNCHANGED <<connected, current_turn, position_idx, guess_count_for_pos, score,
                   pass_num, secret_word, display, player_name, game_number,
                   shutting_down, turn_sem, pc, loc, sock, applied, last_guesser, probe,
                   scorevars, compvars>>

\* variant: the scheduler posts the gate on every poll
SchedTurnGate_EveryPoll ==
    /\ sched_pc = "run"
    /\ phase = PHASE_IN_PROGRESS
    /\ connected[1] /\ connected[2]
    /\ LET next == IF current_turn # 1 /\ current_turn # 2 THEN 1 ELSE current_turn
       IN  /\ current_turn' = next
           /\ guess_count_for_pos' = 1
           /\ turn_sem' = [turn_sem EXCEPT ![next] = IF @ < 2 THEN @ + 1 ELSE @]
           /\ gate_posts' = IF gate_posts < 2 THEN gate_posts + 1 ELSE gate_posts
    /\ sched_pc' = SchedLoop
    /\ UNCHANGED <<phase, connected, position_idx, score, pass_num, secret_word,
                   display, player_name, game_number, shutting_down, pc, loc, sock,
                   applied, last_guesser, probe, scorevars, compvars>>

\* phase == PHASE_IN_PROGRESS, both guessers connected: the gate
SchedTurnGate ==
    /\ sched_pc = "run"
    /\ phase = PHASE_IN_PROGRESS
    /\ connected[1] /\ connected[2]
    /\ IF guess_count_for_pos = 0
       THEN LET next == IF current_turn # 1 /\ current_turn # 2 THEN 1 ELSE current_turn
            IN  /\ current_turn' = next
                /\ guess_count_for_pos' = 1
                /\ turn_sem' = [turn_sem EXCEPT ![next] = @ + 1]
                /\ gate_posts' = gate_posts + 1
       ELSE UNCHANGED <<current_turn, guess_count_for_pos, turn_sem, gate_posts>>
    /\ sched_pc' = SchedLoop
    /\ UNCHANGED <<phase, connected, position_idx, score, pass_num, secret_word,
                   display, player_name, game_number, shutting_down, pc, loc, sock,
                   applied, last_guesser, probe, scorevars, compvars>>

\* variant: the reset keeps the scores of the finished match
reset_game_state_keep_scores ==
    /\ position_idx' = 0
    /\ guess_count_for_pos' = 0
    /\ score' = score
    /\ display' = AllUnderscore
    /\ current_turn' = 0
    /\ pass_num' = 0

\* reset_game_state_locked
reset_game_state_locked ==
    /\ position_idx' = 0
    /\ guess_count_for_pos' = 0
    /\ score' = [score EXCEPT ![1] = 0, ![2] = 0]
    /\ display' = AllUnderscore
    /\ current_turn' = 0
    /\ pass_num' = 0

\* variant: the reset does not wake the wordmaster
SchedGameOver_NoPost ==
    /\ sched_pc = "run"
    /\ phase = PHASE_GAME_OVER
    /\ reset_game_state_locked
    /\ secret_word' = << >>
    /\ phase' = PHASE_WAITING_WORD
    /\ sched_pc' = SchedLoop
    /\ applied' = 0
    /\ last_guesser' = 0
    /\ gate_posts' = 0
    /\ UNCHANGED <<connected, player_name, game_number, shutting_down, turn_sem, pc,
                   loc, sock, probe, scorevars, compvars>>

\* phase == PHASE_GAME_OVER: reset and back to WaitingWord
SchedGameOver ==
    /\ sched_pc = "run"
    /\ phase = PHASE_GAME_OVER
    /\ reset_game_state_locked
    /\ secret_word' = << >>
    /\ phase' = PHASE_WAITING_WORD
    /\ turn_sem' = [turn_sem EXCEPT ![0] = @ + 1]
    /\ sched_pc' = SchedLoop
    /\ applied' = 0
    /\ last_guesser' = 0
    /\ gate_posts' = 0
    /\ UNCHANGED <<connected, player_name, game_number, shutting_down, pc, loc, sock,
                   probe, scorevars, compvars>>

(***************************************************************************)
(* child_session: the NAME exchange, then the role loop, then the          *)
(* epilogue that marks the slot disconnected.                              *)
(***************************************************************************)
\* where a session goes when it reaches the top of its wait loop
WaitLoop == IF shutting_down THEN "epilogue" ELSE "wait"

SessionConnect(p) ==
    /\ pc[p] = "session"
    /\ \E line \in NameLines :
         /\ parse_name_ok(line)
         /\ player_name' = [player_name EXCEPT ![p] = Truncate(parse_name(line), NAME_LEN)]
    /\ connected' = [connected EXCEPT ![p] = TRUE]
    /\ sock' = [sock EXCEPT ![p] = Line("ROLE")]
    /\ pc' = [pc EXCEPT ![p] = WaitLoop]
    /\ UNCHANGED <<phase, current_turn, position_idx, guess_count_for_pos, score,
                   pass_num, secret_word, display, game_number, shutting_down,
                   turn_sem, sched_pc, loc, applied, last_guesser, gate_posts, probe, scorevars, compvars>>

\* recv_line(...) <= 0, or a line parse_name refuses: the child closes the socket
SessionReject(p) ==
    /\ pc[p] = "session"
    /\ pc' = [pc EXCEPT ![p] = "done"]
    /\ sock' = [sock EXCEPT ![p] = Line("CLOSED")]
    /\ UNCHANGED <<shared, shutting_down, turn_sem, sched_pc, loc, applied, last_guesser, gate_posts,
                   probe, scorevars, compvars>>

\* after the role loop returned
SessionEpilogue(p) ==
    /\ pc[p] = "epilogue"
    /\ connected' = [connected EXCEPT ![p] = FALSE]
    /\ pc' = [pc EXCEPT ![p] = "done"]
    /\ sock' = [sock EXCEPT ![p] = Line("CLOSED")]
    /\ UNCHANGED <<phase, current_turn, position_idx, guess_count_for_pos, score,
                   pass_num, secret_word, display, player_name, game_number,
                   shutting_down, turn_sem, sched_pc, loc, applied, last_guesser, gate_posts, probe, scorevars, compvars>>

\* the wait loop sees the flag: the role loop returns and the epilogue runs
WaitExit(p) ==
    /\ pc[p] = "wait"
    /\ shutting_down
    /\ connected' = [connected EXCEPT ![p] = FALSE]
    /\ pc' = [pc EXCEPT ![p] = "done"]
    /\ sock' = [sock EXCEPT ![p] = Line("CLOSED")]
    /\ UNCHANGED <<phase, current_turn, position_idx, guess_count_for_pos, score,
                   pass_num, secret_word, display, player_name, game_number,
                   shutting_down, turn_sem, sched_pc, loc, applied, last_guesser, gate_posts,
                   probe, scorevars, compvars>>

(***************************************************************************)
(* child_wordmaster_loop.                                                  *)
(***************************************************************************)
\* variant: the wordmaster is prompted without taking the token of its gate
WmTurn_NoConsume ==
    /\ pc[0] = "wait"
    /\ turn_sem[0] > 0
    /\ turn_sem' = turn_sem
    /\ IF ~connected[0]
       THEN pc' = [pc EXCEPT ![0] = "epilogue"] /\ sock' = sock
       ELSE IF phase # PHASE_WAITING_WORD
            THEN pc' = [pc EXCEPT ![0] = WaitLoop] /\ sock' = sock
            ELSE /\ pc' = [pc EXCEPT ![0] = "recv"]
                 /\ sock' = [sock EXCEPT ![0] = Line("ENTER_WORD")]
    /\ UNCHANGED <<shared, shutting_down, sched_pc, loc, applied, last_guesser, gate_posts,
                   probe, scorevars, compvars>>

\* sem_trywait(&g_sh->turn_sem[0]) == 0, the check under game_mtx, ENTER_WORD
WmTurn ==
    /\ pc[0] = "wait"
    /\ turn_sem[0] > 0
    /\ turn_sem' = [turn_sem EXCEPT ![0] = @ - 1]
    /\ IF ~connected[0]
       THEN pc' = [pc EXCEPT ![0] = "epilogue"] /\ sock' = sock
       ELSE IF phase # PHASE_WAITING_WORD
            THEN pc' = [pc EXCEPT ![0] = WaitLoop] /\ sock' = sock
            ELSE /\ pc' = [pc EXCEPT ![0] = "recv"]
                 /\ sock' = [sock EXCEPT ![0] = Line("ENTER_WORD")]
    /\ UNCHANGED <<shared, shutting_down, sched_pc, loc, applied, last_guesser, gate_posts, probe, scorevars, compvars>>

\* recv_line(...) <= 0
WmDisconnect ==
    /\ pc[0] = "recv"
    /\ connected' = [connected EXCEPT ![0] = FALSE]
    /\ pc' = [pc EXCEPT ![0] = "epilogue"]
    /\ UNCHANGED <<phase, current_turn, position_idx, guess_count_for_pos, score,
                   pass_num, secret_word, display, player_name, game_number,
                   shutting_down, turn_sem, sched_pc, loc, sock, applied, last_guesser, gate_posts,
                   probe, scorevars, compvars>>

\* the line starts with "WORD "
IsWordLine(line) == HasPrefix(line, Str(<<"W", "O", "R", "D", " ">>))

\* a line that is not a WORD line: ERR Expected: WORD ABCDE
WmNotWord(line) ==
    /\ pc[0] = "recv"
    /\ ~IsWordLine(line)
    /\ sock' = [sock EXCEPT ![0] = Line("ERR_EXPECTED_WORD")]
    /\ UNCHANGED <<shared, shutting_down, turn_sem, sched_pc, pc, loc, applied,
                   last_guesser, gate_posts, probe, scorevars, compvars>>

\* a WORD line is_valid_word refuses: ERR Word must be exactly 5 letters A-Z
WmBadWord(line) ==
    /\ pc[0] = "recv"
    /\ IsWordLine(line)
    /\ ~is_valid_word(NormalizeWord(line))
    /\ sock' = [sock EXCEPT ![0] = Line("ERR_WORD")]
    /\ UNCHANGED <<shared, shutting_down, turn_sem, sched_pc, pc, loc, applied,
                   last_guesser, gate_posts, probe, scorevars, compvars>>

\* variant: the word is stored as it was received, without the upper-casing
WmAccept_RawWord(line) ==
    /\ pc[0] = "recv"
    /\ IsWordLine(line)
    /\ is_valid_word(NormalizeWord(line))
    /\ TableWins + PendingWins < MaxWins
    /\ secret_word' = Truncate(Skip(line, 5), WORD_LEN + 1)
    /\ position_idx' = 0
    /\ pass_num' = 0
    /\ current_turn' = 1
    /\ guess_count_for_pos' = 0
    /\ phase' = PHASE_IN_PROGRESS
    /\ sock' = [sock EXCEPT ![0] = Line("OK")]
    /\ pc' = [pc EXCEPT ![0] = WaitLoop]
    /\ applied' = 0
    /\ last_guesser' = 0
    /\ gate_posts' = 0
    /\ UNCHANGED <<connected, score, display, player_name, game_number, shutting_down,
                   turn_sem, sched_pc, loc, probe, scorevars, compvars>>

\* a WORD line is_valid_word accepts: the match starts
WmAccept(line) ==
    /\ pc[0] = "recv"
    /\ IsWordLine(line)
    /\ is_valid_word(NormalizeWord(line))
    /\ TableWins + PendingWins < MaxWins
    /\ secret_word' = Truncate(NormalizeWord(line), WORD_LEN + 1)
    /\ position_idx' = 0
    /\ pass_num' = 0
    /\ current_turn' = 1
    /\ guess_count_for_pos' = 0
    /\ phase' = PHASE_IN_PROGRESS
    /\ sock' = [sock EXCEPT ![0] = Line("OK")]
    /\ pc' = [pc EXCEPT ![0] = WaitLoop]
    /\ applied' = 0
    /\ last_guesser' = 0
    /\ gate_posts' = 0
    /\ UNCHANGED <<connected, score, display, player_name, game_number, shutting_down,
                   turn_sem, sched_pc, loc, probe, scorevars, compvars>>

\* one received line
WmLine(line) ==
    \/ WmNotWord(line)
    \/ WmBadWord(line)
    \/ WmAccept(line)

(***************************************************************************)
(* child_guesser_loop.                                                     *)
(***************************************************************************)
\* variant: the scan for the letter stops one position short
GuessResult_ShortScan(word, pos, ch) ==
    LET correct == (ch = word[pos + 1])
        present == ~correct /\ \E k \in 1 .. (WORD_LEN - 1) : word[k] = ch
    IN  IF correct THEN "CORRECT" ELSE IF present THEN "PRESENT" ELSE "ABSENT"

\* result of guessing ch at position pos (0-based) of the secret word
GuessResult(word, pos, ch) ==
    LET correct == (ch = word[pos + 1])
        present == ~correct /\ \E k \in 1 .. WORD_LEN : word[k] = ch
    IN  IF correct THEN "CORRECT" ELSE IF present THEN "PRESENT" ELSE "ABSENT"

\* variant: the turn is not swapped
Other_Same(p) == p

\* (player_id == 1) ? 2 : 1
Other(p) == IF p = 1 THEN 2 ELSE 1

\* variant: the handler enters its turn without taking the token of its gate
GsTurn_NoConsume(p) ==
    /\ pc[p] = "wait"
    /\ turn_sem[p] > 0
    /\ turn_sem' = turn_sem
    /\ IF ~connected[p]
       THEN pc' = [pc EXCEPT ![p] = "epilogue"] /\ sock' = sock
       ELSE IF phase # PHASE_IN_PROGRESS \/ current_turn # p
            THEN pc' = [pc EXCEPT ![p] = WaitLoop] /\ sock' = sock
            ELSE \/ /\ pc' = [pc EXCEPT ![p] = "recv"]
                    /\ sock' = [sock EXCEPT ![p] = Line("YOUR_TURN")]
                 \/ /\ pc' = [pc EXCEPT ![p] = "prompt_failed"]
                    /\ sock' = sock
    /\ UNCHANGED <<shared, shutting_down, sched_pc, loc, applied, last_guesser, gate_posts,
                   probe, scorevars, compvars>>

\* sem_trywait(&g_sh->turn_sem[p]) == 0, the check under game_mtx, YOUR_TURN;
\* a failed send of the prompt is followed by GsPromptFail
GsTurn(p) ==
    /\ pc[p] = "wait"
    /\ turn_sem[p] > 0
    /\ turn_sem' = [turn_sem EXCEPT ![p] = @ - 1]
    /\ IF ~connected[p]
       THEN pc' = [pc EXCEPT ![p] = "epilogue"] /\ sock' = sock
       ELSE IF phase # PHASE_IN_PROGRESS \/ current_turn # p
            THEN pc' = [pc EXCEPT ![p] = WaitLoop] /\ sock' = sock
            ELSE \/ /\ pc' = [pc EXCEPT ![p] = "recv"]
                    /\ sock' = [sock EXCEPT ![p] = Line("YOUR_TURN")]
                 \/ /\ pc' = [pc EXCEPT ![p] = "prompt_failed"]
                    /\ sock' = sock
    /\ UNCHANGED <<shared, shutting_down, sched_pc, loc, applied, last_guesser, gate_posts, probe, scorevars, compvars>>

\* variant: the slot is marked but the gate of the scheduler stays closed
GsMarkDisconnected_KeepGate(p) ==
    /\ connected' = [connected EXCEPT ![p] = FALSE]
    /\ pc' = [pc EXCEPT ![p] = "epilogue"]
    /\ UNCHANGED <<phase, current_turn, position_idx, guess_count_for_pos, score, pass_num,
                   secret_word, display, player_name, game_number, shutting_down, turn_sem,
                   sched_pc, loc, sock, applied, last_guesser, gate_posts, probe, scorevars,
                   compvars>>

\* the two disconnect paths of a turn: mark the slot and release the gate
GsMarkDisconnected(p) ==
    /\ connected' = [connected EXCEPT ![p] = FALSE]
    /\ guess_count_for_pos' = 0
    /\ pc' = [pc EXCEPT ![p] = "epilogue"]
    /\ UNCHANGED <<phase, current_turn, position_idx, score, pass_num, secret_word,
                   display, player_name, game_number, shutting_down, turn_sem,
                   sched_pc, loc, sock, applied, last_guesser, gate_posts, probe, scorevars, compvars>>

\* send_line(client_fd, prompt) < 0
GsPromptFail(p) ==
    /\ pc[p] = "prompt_failed"
    /\ GsMarkDisconnected(p)

\* recv_line(...) <= 0
GsDisconnect(p) ==
    /\ pc[p] = "recv"
    /\ GsMarkDisconnected(p)

\* the line starts with "GUESS " and has at least one more character
IsGuessLine(line) ==
    /\ HasPrefix(line, Str(<<"G", "U", "E", "S", "S", " ">>))
    /\ Len(Skip(line, 6)) >= 1

\* ch = line[6], upper-cased
GuessChar(line) == ToUpper(line[7])

\* the line leaves the read loop with a letter in ch
IsGoodGuess(line) == IsGuessLine(line) /\ IsUpperAZ(GuessChar(line))

\* variant: a line that is no GUESS line ends the turn with the gate still closed
GsNotGuess_Abandon(p, line) ==
    /\ pc[p] = "recv"
    /\ ~IsGuessLine(line)
    /\ sock' = [sock EXCEPT ![p] = Line("ERR_EXPECTED_GUESS")]
    /\ pc' = [pc EXCEPT ![p] = WaitLoop]
    /\ UNCHANGED <<shared, shutting_down, turn_sem, sched_pc, loc, applied,
                   last_guesser, gate_posts, probe, scorevars, compvars>>

\* not a GUESS line: ERR Expected: GUESS X
GsNotGuess(p, line) ==
    /\ pc[p] = "recv"
    /\ ~IsGuessLine(line)
    /\ sock' = [sock EXCEPT ![p] = Line("ERR_EXPECTED_GUESS")]
    /\ UNCHANGED <<shared, shutting_down, turn_sem, sched_pc, pc, loc, applied,
                   last_guesser, gate_posts, probe, scorevars, compvars>>

\* variant: the rejection of a bad guess releases the scheduler gate
GsBadGuess_Release(p, line) ==
    /\ pc[p] = "recv"
    /\ IsGuessLine(line)
    /\ ~IsUpperAZ(GuessChar(line))
    /\ guess_count_for_pos' = 0
    /\ sock' = [sock EXCEPT ![p] = Line("ERR_GUESS")]
    /\ UNCHANGED <<phase, connected, current_turn, position_idx, score, pass_num,
                   secret_word, display, player_name, game_number, shutting_down,
                   turn_sem, sched_pc, pc, loc, applied, last_guesser, gate_posts, probe, scorevars, compvars>>

\* a GUESS line whose first payload character is no letter: ERR Guess must be ...
GsBadGuess(p, line) ==
    /\ pc[p] = "recv"
    /\ IsGuessLine(line)
    /\ ~IsUpperAZ(GuessChar(line))
    /\ sock' = [sock EXCEPT ![p] = Line("ERR_GUESS")]
    /\ UNCHANGED <<shared, shutting_down, turn_sem, sched_pc, pc, loc, applied,
                   last_guesser, gate_posts, probe, scorevars, compvars>>

\* a good guess, but the re-check under game_mtx fails: ERR Not your turn (race)
GsRace(p, line) ==
    /\ pc[p] = "recv"
    /\ IsGoodGuess(line)
    /\ phase # PHASE_IN_PROGRESS \/ current_turn # p
    /\ sock' = [sock EXCEPT ![p] = Line("ERR_RACE")]
    /\ pc' = [pc EXCEPT ![p] = "race"]
    /\ UNCHANGED <<shared, shutting_down, turn_sem, sched_pc, loc, applied, last_guesser, gate_posts,
                   probe, scorevars, compvars>>

\* second critical section of the race path: allow the scheduler to proceed
GsRaceRelease(p) ==
    /\ pc[p] = "race"
    /\ guess_count_for_pos' = 0
    /\ pc' = [pc EXCEPT ![p] = WaitLoop]
    /\ UNCHANGED <<phase, connected, current_turn, position_idx, score, pass_num,
                   secret_word, display, player_name, game_number, shutting_down,
                   turn_sem, sched_pc, loc, sock, applied, last_guesser, gate_posts, probe, scorevars, compvars>>

\* variant: the advance skips a position
AdvancedPos_Skip(pos) == IF pos + 2 >= WORD_LEN THEN 0 ELSE pos + 2

\* position_idx after the advance
AdvancedPos(pos) == IF pos + 1 >= WORD_LEN THEN 0 ELSE pos + 1

\* variant: the pass number advances one position early as well
AdvancedPass_Early(pos, pass) == IF pos + 2 >= WORD_LEN THEN pass + 1 ELSE pass

\* pass_num after the advance
AdvancedPass(pos, pass) == IF pos + 1 >= WORD_LEN THEN pass + 1 ELSE pass

\* variant: the pass limit is tested with > instead of >=
IsEndOfGame_PassOff(disp, pass) ==
    \/ is_word_revealed_locked(disp)
    \/ pass > MAX_PASSES

\* the end-of-game test on the display and pass number after the advance
IsEndOfGame(disp, pass) ==
    \/ is_word_revealed_locked(disp)
    \/ pass >= MAX_PASSES

\* variant: the guessed letter is written to the display when it is PRESENT too
GsApply_RevealPresent(p, line) ==
    /\ pc[p] = "recv"
    /\ IsGoodGuess(line)
    /\ phase = PHASE_IN_PROGRESS
    /\ current_turn = p
    /\ LET ch == GuessChar(line)
           pass_before == pass_num
           pos_before == position_idx
           result == GuessResult(secret_word, pos_before, ch)
           score2 == IF result = "CORRECT" THEN [score EXCEPT ![p] = @ + 1] ELSE score
           display2 == IF result # "ABSENT"
                       THEN [display EXCEPT ![pos_before + 1] = ch]
                       ELSE display
           pos2 == AdvancedPos(pos_before)
           pass2 == AdvancedPass(pos_before, pass_before)
           over == IsEndOfGame(display2, pass2)
       IN  /\ score' = score2
           /\ display' = display2
           /\ position_idx' = pos2
           /\ pass_num' = pass2
           /\ phase' = IF over THEN PHASE_GAME_OVER ELSE phase
           /\ current_turn' = IF over THEN current_turn ELSE Other(p)
           /\ guess_count_for_pos' = 0
           /\ sock' = [sock EXCEPT ![p] = Line("STATE")]
           /\ IF over
              THEN /\ loc' = [loc EXCEPT ![p] =
                                [k |-> "over", s1 |-> score2[1], s2 |-> score2[2],
                                 secret |-> Truncate(secret_word, WORD_LEN + 1)]]
                   /\ pc' = [pc EXCEPT ![p] = "over"]
              ELSE /\ loc' = loc
                   /\ pc' = [pc EXCEPT ![p] = WaitLoop]
    /\ applied' = applied + 1
    /\ last_guesser' = p
    /\ gate_posts' = 0
    /\ UNCHANGED <<connected, secret_word, player_name, game_number, shutting_down,
                   turn_sem, sched_pc, probe, scorevars, compvars>>

\* a good guess is applied under game_mtx and STATE is sent; the handler goes
\* back to the wait loop, or on to the end of the match when is_game_over
GsApply(p, line) ==
    /\ pc[p] = "recv"
    /\ IsGoodGuess(line)
    /\ phase = PHASE_IN_PROGRESS
    /\ current_turn = p
    /\ LET ch == GuessChar(line)
           pass_before == pass_num
           pos_before == position_idx
           result == GuessResult(secret_word, pos_before, ch)
           score2 == IF result = "CORRECT" THEN [score EXCEPT ![p] = @ + 1] ELSE score
           display2 == IF result = "CORRECT"
                       THEN [display EXCEPT ![pos_before + 1] = secret_word[pos_before + 1]]
                       ELSE display
           pos2 == AdvancedPos(pos_before)
           pass2 == AdvancedPass(pos_before, pass_before)
           over == IsEndOfGame(display2, pass2)
       IN  /\ score' = score2
           /\ display' = display2
           /\ position_idx' = pos2
           /\ pass_num' = pass2
           /\ phase' = IF over THEN PHASE_GAME_OVER ELSE phase
           /\ current_turn' = IF over THEN current_turn ELSE Other(p)
           /\ guess_count_for_pos' = 0
           /\ sock' = [sock EXCEPT ![p] = Line("STATE")]
           /\ IF over
              THEN /\ loc' = [loc EXCEPT ![p] =
                                [k |-> "over", s1 |-> score2[1], s2 |-> score2[2],
                                 secret |-> Truncate(secret_word, WORD_LEN + 1)]]
                   /\ pc' = [pc EXCEPT ![p] = "over"]
              ELSE /\ loc' = loc
                   /\ pc' = [pc EXCEPT ![p] = WaitLoop]
    /\ applied' = applied + 1
    /\ last_guesser' = p
    /\ gate_posts' = 0
    /\ UNCHANGED <<connected, secret_word, player_name, game_number, shutting_down,
                   turn_sem, sched_pc, probe, scorevars, compvars>>

\* one received line
GsLine(p, line) ==
    \/ GsNotGuess(p, line)
    \/ GsBadGuess(p, line)
    \/ GsRace(p, line)
    \/ GsApply(p, line)

\* variant: the winner is computed from the live scores instead of the snapshot
GsGameOver_LiveScores(p) ==
    /\ pc[p] = "over"
    /\ LET s1 == score[1]
           s2 == score[2]
           winner == IF s1 > s2 THEN 1 ELSE IF s2 > s1 THEN 2 ELSE 0
       IN  /\ score_table' = UpdateWins(score_table, winner, player_name)
           /\ sock' = [sock EXCEPT ![p] =
                        [kind |-> "GAME_OVER", word |-> loc[p].secret,
                         display |-> display, passes |-> pass_num,
                         scoreA |-> loc[p].s1, scoreB |-> loc[p].s2,
                         winner |-> IF winner = 0 THEN "DRAW"
                                    ELSE IF winner = 1 THEN "PLAYER1" ELSE "PLAYER2"]]
    /\ scores_file' = scores_save(score_table')
    /\ pc' = [pc EXCEPT ![p] = WaitLoop]
    /\ loc' = [loc EXCEPT ![p] = NoLoc]
    /\ UNCHANGED <<shared, shutting_down, turn_sem, sched_pc, applied, last_guesser, gate_posts,
                   probe, compvars>>

\* if (is_game_over): the winner from the snapshot s1, s2; the winner's slot
\* of the score table under score_mtx, then scores_save; GAME_OVER from the
\* snapshot and from g_sh->display and g_sh->pass_num, read without the mutex
GsGameOver(p) ==
    /\ pc[p] = "over"
    /\ LET s1 == loc[p].s1
           s2 == loc[p].s2
           winner == IF s1 > s2 THEN 1 ELSE IF s2 > s1 THEN 2 ELSE 0
       IN  /\ score_table' = UpdateWins(score_table, winner, player_name)
           /\ sock' = [sock EXCEPT ![p] =
                        [kind |-> "GAME_OVER", word |-> loc[p].secret,
                         display |-> display, passes |-> pass_num,
                         scoreA |-> s1, scoreB |-> s2,
                         winner |-> IF winner = 0 THEN "DRAW"
                                    ELSE IF winner = 1 THEN "PLAYER1" ELSE "PLAYER2"]]
    /\ scores_file' = scores_save(score_table')
    /\ pc' = [pc EXCEPT ![p] = WaitLoop]
    /\ loc' = [loc EXCEPT ![p] = NoLoc]
    /\ UNCHANGED <<shared, shutting_down, turn_sem, sched_pc, applied, last_guesser, gate_posts,
                   probe, compvars>>

(***************************************************************************)
(* The system.                                                             *)
(***************************************************************************)
Next ==
    \/ sigint_handler
    \/ SchedExit
    \/ SchedWaitingPlayers
    \/ SchedWaitingWord
    \/ SchedForceGameOver
    \/ SchedTurnGate
    \/ SchedGameOver
    \/ \E p \in Players : SessionConnect(p)
    \/ \E p \in Players : SessionReject(p)
    \/ \E p \in Players : SessionEpilogue(p)
    \/ \E p \in Players : WaitExit(p)
    \/ WmTurn
    \/ WmDisconnect
    \/ \E line \in WordLines : WmLine(line)
    \/ \E p \in Guessers : GsTurn(p)
    \/ \E p \in Guessers : GsPromptFail(p)
    \/ \E p \in Guessers : GsDisconnect(p)
    \/ \E p \in Guessers, line \in GuessLines : GsLine(p, line)
    \/ \E p \in Guessers : GsRaceRelease(p)
    \/ \E p \in Guessers : GsGameOver(p)

Spec == Init /\ [][Next]_vars

(***************************************************************************)
(* The server without SIGINT.  The flag is never set, so the loops never   *)
(* leave, and the re-check of a good guess never fails: the phase and the  *)
(* turn of a handler that was prompted change only through its own guess   *)
(* or through its own disconnect.  The scheduler thread loops for ever     *)
(* with a 10 ms sleep per iteration, so an iteration that has something to *)
(* do is eventually run.                                                   *)
(***************************************************************************)
SchedStep ==
    \/ SchedWaitingPlayers
    \/ SchedForceGameOver
    \/ SchedTurnGate
    \/ SchedGameOver

LiveNext ==
    \/ SchedStep
    \/ \E p \in Players : SessionConnect(p)
    \/ \E p \in Players : SessionReject(p)
    \/ \E p \in Players : SessionEpilogue(p)
    \/ WmTurn
    \/ WmDisconnect
    \/ \E line \in WordLines : WmLine(line)
    \/ \E p \in Guessers : GsTurn(p)
    \/ \E p \in Guessers : GsPromptFail(p)
    \/ \E p \in Guessers : GsDisconnect(p)
    \/ \E p \in Guessers, line \in GuessLines : GsNotGuess(p, line)
    \/ \E p \in Guessers, line \in GuessLines : GsBadGuess(p, line)
    \/ \E p \in Guessers, line \in GuessLines : GsApply(p, line)
    \/ \E p \in Guessers : GsGameOver(p)

LiveSpec == Init /\ [][LiveNext]_vars /\ WF_vars(SchedStep)

(***************************************************************************)
(* The server without SIGINT and with three clients that stay connected:   *)
(* every send reaches its client and every read returns a line.  A client  *)
(* may send any number of lines the handler refuses, but a prompted        *)
(* guesser eventually sends a good guess.  Each handler polls its gate     *)
(* with sem_trywait and a 20 ms sleep, so a token that stays in the gate   *)
(* is eventually taken, and the block that ends a match runs to its end.   *)
(***************************************************************************)
\* the turn of guesser p starts and the prompt is sent
GsTurnSent(p) == GsTurn(p) /\ pc'[p] # "prompt_failed"

\* the client of guesser p answers the prompt with a good guess
GsAnswer(p) == \E line \in GuessLines : GsApply(p, line)

\* the steps of the handler of guesser p that do not wait for a refused line:
\* they are enabled at different places of the loop
GsProgress(p) == GsTurnSent(p) \/ GsAnswer(p) \/ GsGameOver(p)

\* the iterations of the scheduler that find something to do while no guesser
\* slot is disconnected
TurnSchedStep ==
    \/ SchedWaitingPlayers
    \/ SchedTurnGate
    \/ SchedGameOver

TurnNext ==
    \/ TurnSchedStep
    \/ \E p \in Players : SessionConnect(p)
    \/ WmTurn
    \/ \E line \in WordLines : WmLine(line)
    \/ \E p \in Guessers : GsTurnSent(p)
    \/ \E p \in Guessers, line \in GuessLines : GsNotGuess(p, line)
    \/ \E p \in Guessers, line \in GuessLines : GsBadGuess(p, line)
    \/ \E p \in Guessers : GsAnswer(p)
    \/ \E p \in Guessers : GsGameOver(p)

TurnLiveSpec ==
    /\ Init
    /\ [][TurnNext]_vars
    /\ WF_vars(TurnSchedStep)
    /\ WF_vars(WmTurn)
    /\ \A p \in Guessers : WF_vars(GsProgress(p))

(***************************************************************************)
(* game_mtx on its own: every context enters and leaves its sections in    *)
(* any order, one write per step.                                          *)
(***************************************************************************)
\* variant: the lock is taken without waiting for its holder
MtxLock_NoWait(c) ==
    /\ mx_pc[c].at = "out"
    /\ \E s \in Sections(c) :
         mx_pc' = [mx_pc EXCEPT ![c] = [at |-> "in", sec |-> s.sec, todo |-> s.writes]]
    /\ game_mtx' = c
    /\ UNCHANGED <<gamevars, probe, offmutex, last_write>>

\* pthread_mutex_lock(&g_sh->game_mtx) at the head of a section
MtxLock(c) ==
    /\ mx_pc[c].at = "out"
    /\ game_mtx = "free"
    /\ \E s \in Sections(c) :
         mx_pc' = [mx_pc EXCEPT ![c] = [at |-> "in", sec |-> s.sec, todo |-> s.writes]]
    /\ game_mtx' = c
    /\ UNCHANGED <<gamevars, probe, offmutex, last_write>>

\* the next assignment of the section
MtxWrite(c) ==
    /\ mx_pc[c].at = "in"
    /\ mx_pc[c].todo # << >>
    /\ last_write' = [ctx |-> c, field |-> mx_pc[c].todo[1], held |-> (game_mtx = c)]
    /\ mx_pc' = [mx_pc EXCEPT ![c].todo = Skip(@, 1)]
    /\ UNCHANGED <<gamevars, probe, offmutex, game_mtx>>

\* pthread_mutex_unlock(&g_sh->game_mtx)
MtxUnlock(c) ==
    /\ mx_pc[c].at = "in"
    /\ mx_pc[c].todo = << >>
    /\ game_mtx' = "free"
    /\ mx_pc' = [mx_pc EXCEPT ![c] = [at |-> "out"]]
    /\ UNCHANGED <<gamevars, probe, offmutex, last_write>>

\* an assignment outside every section
MtxUnlockedWrite(c) ==
    /\ mx_pc[c].at = "out"
    /\ \E f \in UnlockedWrites(c) :
         last_write' = [ctx |-> c, field |-> f, held |-> (game_mtx = c)]
    /\ UNCHANGED <<gamevars, probe, offmutex, game_mtx, mx_pc>>

MutexNext ==
    \/ \E c \in Contexts : MtxLock(c)
    \/ \E c \in Contexts : MtxWrite(c)
    \/ \E c \in Contexts : MtxUnlock(c)
    \/ \E c \in Contexts : MtxUnlockedWrite(c)

MutexSpec == Init /\ [][MutexNext]_vars

(***************************************************************************)
(* out_enqueue(0, msg) called by the guessers and out_drain_to_socket(0,   *)
(* fd) called by the wordmaster's handler, one semaphore operation or one  *)
(* out_mtx section per step.                                               *)
(***************************************************************************)
\* a guesser calls out_enqueue(0, msg)
OutCall(p) ==
    /\ out_pc[p].at = "idle"
    /\ \E m \in OutMessages : out_pc' = [out_pc EXCEPT ![p] = [at |-> "reserve", msg |-> m]]
    /\ out_calls < MaxOutCalls
    /\ out_calls' = out_calls + 1
    /\ UNCHANGED <<gamevars, probe, offout, outq, out_head, out_tail,
                   out_items, out_spaces, out_held,
                   out_enq, out_sent>>

\* variant: the producer goes on to write although no slot is free
OutTryWait_Overwrite(p) ==
    /\ out_pc[p].at = "reserve"
    /\ out_spaces' = IF out_spaces = 0 THEN 0 ELSE out_spaces - 1
    /\ out_pc' = [out_pc EXCEPT ![p] = [at |-> "write", msg |-> out_pc[p].msg]]
    /\ UNCHANGED <<gamevars, probe, offout, outq, out_head, out_tail,
                   out_items, out_held,
                   out_calls, out_enq, out_sent>>

\* if (sem_trywait(&g_sh->out_spaces[target_player]) != 0) return;
OutTryWait(p) ==
    /\ out_pc[p].at = "reserve"
    /\ IF out_spaces = 0
       THEN /\ out_pc' = [out_pc EXCEPT ![p] = OutIdle("dropped")]
            /\ out_spaces' = out_spaces
       ELSE /\ out_pc' = [out_pc EXCEPT ![p] = [at |-> "write", msg |-> out_pc[p].msg]]
            /\ out_spaces' = out_spaces - 1
    /\ UNCHANGED <<gamevars, probe, offout, outq, out_head, out_tail,
                   out_items, out_held,
                   out_calls, out_enq, out_sent>>

\* the out_mtx section of out_enqueue
OutWrite(p) ==
    /\ out_pc[p].at = "write"
    /\ outq' = [outq EXCEPT ![out_tail] = out_pc[p].msg]
    /\ out_tail' = (out_tail + 1) % OutCap
    /\ out_held' = out_held + 1
    /\ out_pc' = [out_pc EXCEPT ![p] = [at |-> "post"]]
    /\ out_enq' = Append(out_enq, out_pc[p].msg)
    /\ UNCHANGED <<gamevars, probe, offout, out_head, out_items, out_spaces,
                   out_calls, out_sent>>

\* sem_post(&g_sh->out_items[target_player])
OutPost(p) ==
    /\ out_pc[p].at = "post"
    /\ out_items' = out_items + 1
    /\ out_pc' = [out_pc EXCEPT ![p] = OutIdle("queued")]
    /\ UNCHANGED <<gamevars, probe, offout, outq, out_head, out_tail,
                   out_spaces, out_held,
                   out_calls, out_enq, out_sent>>

\* while (sem_trywait(&g_sh->out_items[my_id]) == 0)
OutDrainTry ==
    /\ out_pc[0].at = "idle"
    /\ out_items > 0
    /\ out_items' = out_items - 1
    /\ out_pc' = [out_pc EXCEPT ![0] = [at |-> "read"]]
    /\ UNCHANGED <<gamevars, probe, offout, outq, out_head, out_tail,
                   out_spaces, out_held,
                   out_calls, out_enq, out_sent>>

\* variant: the drain copies the head slot without moving the head
OutRead_NoAdvance ==
    /\ out_pc[0].at = "read"
    /\ out_head' = out_head
    /\ out_held' = out_held - 1
    /\ out_pc' = [out_pc EXCEPT ![0] = [at |-> "free", msg |-> outq[out_head]]]
    /\ UNCHANGED <<gamevars, probe, offout, outq, out_tail, out_items,
                   out_spaces,
                   out_calls, out_enq, out_sent>>

\* the out_mtx section of out_drain_to_socket
OutRead ==
    /\ out_pc[0].at = "read"
    /\ out_head' = (out_head + 1) % OutCap
    /\ out_held' = out_held - 1
    /\ out_pc' = [out_pc EXCEPT ![0] = [at |-> "free", msg |-> outq[out_head]]]
    /\ UNCHANGED <<gamevars, probe, offout, outq, out_tail, out_items,
                   out_spaces,
                   out_calls, out_enq, out_sent>>

\* sem_post(&g_sh->out_spaces[my_id]); send_line(client_fd, msg);
OutFree ==
    /\ out_pc[0].at = "free"
    /\ out_spaces' = out_spaces + 1
    /\ out_pc' = [out_pc EXCEPT ![0] = OutIdle(out_pc[0].msg)]
    /\ out_sent' = Append(out_sent, out_pc[0].msg)
    /\ UNCHANGED <<gamevars, probe, offout, outq, out_head, out_tail,
                   out_items, out_held,
                   out_calls, out_enq>>

OutNext ==
    \/ \E p \in Guessers : OutCall(p)
    \/ \E p \in Guessers : OutTryWait(p)
    \/ \E p \in Guessers : OutWrite(p)
    \/ \E p \in Guessers : OutPost(p)
    \/ OutDrainTry
    \/ OutRead
    \/ OutFree

OutSpec == Init /\ [][OutNext]_vars

(***************************************************************************)
(* log_enqueuef and logger_thread_main, one semaphore operation or one     *)
(* log_mtx section per step, and the arrival of SIGINT.                    *)
(***************************************************************************)
gamerest == <<shared, turn_sem, sched_pc, pc, loc, sock, applied, last_guesser,
             gate_posts>>

\* the contexts a signal can interrupt: blocked in sem_wait
LogBlocked ==
    {c \in LogProducers : log_pc[c].at = "reserve" /\ log_spaces = 0}
        \cup (IF log_pc["logger"].at = "wait" /\ log_items = 0 THEN {"logger"} ELSE {})

\* SIGINT: the handler sets shutting_down; it is installed without SA_RESTART,
\* so a sem_wait it interrupts fails with EINTR.  One thread of the parent
\* runs the handler, and the child when the signal goes to the process group.
LogSigint ==
    /\ ~shutting_down
    /\ shutting_down' = TRUE
    /\ \E S \in SUBSET LogBlocked :
          /\ Cardinality(S \cap {"main", "sched", "logger"}) <= 1
          /\ log_pc' = [c \in DOMAIN log_pc |->
                           IF c \notin S THEN log_pc[c]
                           ELSE IF c = "logger" THEN LogAt("check", NoEvent)
                           ELSE LogAt("discarded", log_pc[c].ev)]
    /\ UNCHANGED <<gamerest, probe, offlog, logq, log_head, log_tail, log_items, log_spaces,
                   log_calls, log_enq, log_file>>

\* a call of log_enqueuef: the parent calls once, after SIGINT; the scheduler
\* calls while it runs; a session logs its disconnection after SIGINT and exits
LogCall(c) ==
    /\ log_pc[c].at \in {"idle", "discarded"}
    /\ IF c = "main" THEN shutting_down
       ELSE /\ log_calls < MaxLogCalls
            /\ c = "sched" => ~shutting_down
    /\ log_calls' = IF c = "main" THEN log_calls ELSE log_calls + 1
    /\ log_pc' = [log_pc EXCEPT ![c] =
                     LogAt("reserve", [src |-> c, n |-> IF c = "main" THEN 1 ELSE log_calls'])]
    /\ UNCHANGED <<gamevars, probe, offlog, logq, log_head, log_tail, log_items, log_spaces,
                   log_enq, log_file>>

\* if (sem_wait(&g_sh->log_spaces) == -1) return;
LogReserve(c) ==
    /\ log_pc[c].at = "reserve"
    /\ log_spaces > 0
    /\ log_spaces' = log_spaces - 1
    /\ log_pc' = [log_pc EXCEPT ![c] = LogAt("write", log_pc[c].ev)]
    /\ UNCHANGED <<gamevars, probe, offlog, logq, log_head, log_tail, log_items, log_calls,
                   log_enq, log_file>>

\* the log_mtx section of log_enqueuef
LogWrite(c) ==
    /\ log_pc[c].at = "write"
    /\ logq' = [logq EXCEPT ![log_tail] = log_pc[c].ev]
    /\ log_tail' = (log_tail + 1) % LogCap
    /\ log_enq' = Append(log_enq, log_pc[c].ev)
    /\ log_pc' = [log_pc EXCEPT ![c] = LogAt("post", log_pc[c].ev)]
    /\ UNCHANGED <<gamevars, probe, offlog, log_head, log_items, log_spaces, log_calls,
                   log_file>>

\* sem_post(&g_sh->log_items); the parent goes on to join the threads, a
\* session that logged its disconnection after SIGINT exits
LogPost(c) ==
    /\ log_pc[c].at = "post"
    /\ log_items' = log_items + 1
    /\ log_pc' = [log_pc EXCEPT ![c] =
                     IF c = "main" \/ (c = "session" /\ shutting_down)
                     THEN LogAt("exit", NoEvent) ELSE LogAt("idle", NoEvent)]
    /\ UNCHANGED <<gamevars, probe, offlog, logq, log_head, log_tail, log_spaces, log_calls,
                   log_enq, log_file>>

\* if (g_sh->shutting_down) { sem_getvalue(...); if (sval <= 0) break; }
LoggerCheck ==
    /\ log_pc["logger"].at = "check"
    /\ log_pc' = [log_pc EXCEPT !["logger"] =
                     IF shutting_down /\ log_items <= 0
                     THEN LogAt("done", NoEvent) ELSE LogAt("wait", NoEvent)]
    /\ UNCHANGED <<gamevars, probe, offlog, logq, log_head, log_tail, log_items, log_spaces,
                   log_calls, log_enq, log_file>>

\* sem_wait(&g_sh->log_items)
LoggerTake ==
    /\ log_pc["logger"].at = "wait"
    /\ log_items > 0
    /\ log_items' = log_items - 1
    /\ log_pc' = [log_pc EXCEPT !["logger"] = LogAt("read", NoEvent)]
    /\ UNCHANGED <<gamevars, probe, offlog, logq, log_head, log_tail, log_spaces, log_calls,
                   log_enq, log_file>>

\* the log_mtx section of logger_thread_main
LoggerRead ==
    /\ log_pc["logger"].at = "read"
    /\ log_head' = (log_head + 1) % LogCap
    /\ log_pc' = [log_pc EXCEPT !["logger"] = LogAt("print", logq[log_head])]
    /\ UNCHANGED <<gamevars, probe, offlog, logq, log_tail, log_items, log_spaces, log_calls,
                   log_enq, log_file>>

\* sem_post(&g_sh->log_spaces); fprintf(f, "%s\n", line); fflush(f);
LoggerPrint ==
    /\ log_pc["logger"].at = "print"
    /\ log_spaces' = log_spaces + 1
    /\ log_file' = Append(log_file, log_pc["logger"].ev)
    /\ log_pc' = [log_pc EXCEPT !["logger"] = LogAt("check", NoEvent)]
    /\ UNCHANGED <<gamevars, probe, offlog, logq, log_head, log_tail, log_items, log_calls,
                   log_enq>>

LoggerStep == LoggerCheck \/ LoggerTake \/ LoggerRead \/ LoggerPrint

LogNext ==
    \/ LogSigint
    \/ \E c \in LogProducers : LogCall(c)
    \/ \E c \in LogProducers : LogReserve(c)
    \/ \E c \in LogProducers : LogWrite(c)
    \/ \E c \in LogProducers : LogPost(c)
    \/ LoggerCheck
    \/ LoggerTake
    \/ LoggerRead
    \/ LoggerPrint

LogSpec == Init /\ [][LogNext]_vars

\* every thread and process that can take a step eventually takes one
LogLiveSpec ==
    /\ LogSpec
    /\ WF_vars(LoggerStep)
    /\ \A c \in LogProducers : WF_vars(LogCall(c) \/ LogReserve(c) \/ LogWrite(c) \/ LogPost(c))

(***************************************************************************)
(* The score table on its own: scores_save on a table the matches of a run *)
(* have left, then scores_load when the server is started again.           *)
(***************************************************************************)
\* wins a slot reaches
MaxTableWins == 2

\* NAME lines of the players whose wins the table records
TableNameLines ==
    { Str(<<"N", "A", "M", "E", " ", "A", " ", "B">>),
      Str(<<"N", "A", "M", "E", " ", "A", "B">>),
      Str(<<"N", "A", "M", "E", " ", "B">>) }

\* the entries of a guesser slot: the default name, or the name of a winner
TableEntries(pid) ==
    [wins : 0 .. MaxTableWins,
     name : {DefaultName(pid)} \cup {parse_name(l) : l \in {k \in TableNameLines : parse_name_ok(k)}}]

ScoreTables ==
    {[pid \in Players |-> IF pid = 1 THEN e1 ELSE IF pid = 2 THEN e2 ELSE DefaultTable[0]] :
        e1 \in TableEntries(1), e2 \in TableEntries(2)}

ScoreInit ==
    /\ InitGame
    /\ probe \in [table : ScoreTables, file : {<< >>}, loaded : {DefaultTable},
                  result : {"none"}]

\* scores_save("scores.txt") at the end of a run, scores_load("scores.txt") at
\* the start of the next
ProbeRoundTrip ==
    /\ probe.result = "none"
    /\ probe' = [probe EXCEPT !.file = scores_save(probe.table),
                              !.loaded = scores_load(scores_save(probe.table)),
                              !.result = "loaded"]
    /\ UNCHANGED <<gamevars, scorevars, compvars>>

ScoreNext == ProbeRoundTrip

ScoreSpec == ScoreInit /\ [][ScoreNext]_vars

(***************************************************************************)
(* The mutexes on their own: every context runs the nests of its code in   *)
(* any order, one pthread_mutex_lock or pthread_mutex_unlock per step.  A  *)
(* lock on a mutex that is held waits.                                     *)
(***************************************************************************)
\* the first pthread_mutex_lock of a nest returns
LkAcquire(c, nest) ==
    /\ lk_pc[c] = LkIdle
    /\ lk_owner[nest[1]] = "free"
    /\ lk_owner' = [lk_owner EXCEPT ![nest[1]] = c]
    /\ lk_pc' = [lk_pc EXCEPT ![c] = [held |-> <<nest[1]>>, want |-> Tail(nest)]]
    /\ UNCHANGED <<gamevars, probe, offlock>>

\* a pthread_mutex_lock made with a mutex held returns
LkNested(c) ==
    /\ lk_pc[c].held # << >>
    /\ lk_pc[c].want # << >>
    /\ lk_owner[Head(lk_pc[c].want)] = "free"
    /\ lk_owner' = [lk_owner EXCEPT ![Head(lk_pc[c].want)] = c]
    /\ lk_pc' = [lk_pc EXCEPT ![c] = [held |-> Append(@.held, Head(@.want)),
                                       want |-> Tail(@.want)]]
    /\ UNCHANGED <<gamevars, probe, offlock>>

\* pthread_mutex_unlock of the mutex locked last
LkRelease(c) ==
    /\ lk_pc[c].held # << >>
    /\ lk_pc[c].want = << >>
    /\ LET n == Len(lk_pc[c].held)
       IN  /\ lk_owner' = [lk_owner EXCEPT ![lk_pc[c].held[n]] = "free"]
           /\ lk_pc' = [lk_pc EXCEPT ![c] = [held |-> SubSeq(@.held, 1, n - 1),
                                              want |-> << >>]]
    /\ UNCHANGED <<gamevars, probe, offlock>>

LockNext ==
    \/ \E c \in LockContexts : \E nest \in Nests(c) : LkAcquire(c, nest)
    \/ \E c \in LockContexts : LkNested(c)
    \/ \E c \in LockContexts : LkRelease(c)

LockSpec == Init /\ [][LockNext]_vars

(***************************************************************************)
(* The guess result on its own: every word, position and letter over a     *)
(* small alphabet, evaluated once as child_guesser_loop evaluates it.       *)
(***************************************************************************)
ProbeLetters == {Ord["A"], Ord["B"], Ord["Z"]}

GuessInit ==
    /\ InitGame
    /\ probe \in [word : [1 .. WORD_LEN -> ProbeLetters], pos : 0 .. (WORD_LEN - 1),
                  ch : ProbeLetters, result : {"none"}]

ProbeGuess ==
    /\ probe.result = "none"
    /\ probe' = [probe EXCEPT !.result = GuessResult(probe.word, probe.pos, probe.ch)]
    /\ UNCHANGED <<shared, shutting_down, turn_sem, sched_pc, pc, loc, sock, applied,
                   last_guesser, gate_posts, scorevars, compvars>>

GuessNext == ProbeGuess

GuessSpec == GuessInit /\ [][GuessNext]_vars

(***************************************************************************)
(* Properties.                                                             *)
(***************************************************************************)
HasUnderscore(disp) == \E i \in 1 .. Len(disp) : disp[i] = Underscore

Occurs(c, w) == \E i \in 1 .. Len(w) : w[i] = c

\* C1: a guess yields exactly one of CORRECT, PRESENT, ABSENT: CORRECT iff the
\* letter is the secret's letter at the position, PRESENT iff it is not but
\* occurs somewhere in the secret, ABSENT iff it occurs nowhere in the secret.
C1_GuessResult ==
    probe.result # "none" =>
        /\ probe.result \in {"CORRECT", "PRESENT", "ABSENT"}
        /\ (probe.result = "CORRECT") <=> (probe.ch = probe.word[probe.pos + 1])
        /\ (probe.result = "PRESENT") <=>
               (probe.ch # probe.word[probe.pos + 1] /\ Occurs(probe.ch, probe.word))
        /\ (probe.result = "ABSENT") <=> ~Occurs(probe.ch, probe.word)

C1_Witness ==
    /\ probe.result = "PRESENT"
    /\ probe.ch # probe.word[probe.pos + 1]
    /\ probe.ch = probe.word[WORD_LEN]

\* C2: while phase is InProgress, position_idx is in 0..4 and pass_num is in
\* 0..4; pass_num = 5 is only ever seen together with phase GameOver.
C2_IndexBounds ==
    /\ phase = PHASE_IN_PROGRESS =>
          /\ position_idx \in 0 .. (WORD_LEN - 1)
          /\ pass_num \in 0 .. (MAX_PASSES - 1)
    /\ pass_num = MAX_PASSES => phase = PHASE_GAME_OVER

C2_Witness ==
    /\ phase = PHASE_GAME_OVER
    /\ pass_num = MAX_PASSES
    /\ position_idx = 0

\* C3: with both guessers connected, the first applied guess of a match is by
\* guesser 1 and no guesser applies two guesses in a row.
C3_Alternation ==
    [][(applied' = applied + 1 /\ connected[1] /\ connected[2]) =>
           /\ last_guesser' # last_guesser
           /\ last_guesser = 0 => last_guesser' = 1]_vars

C3_Witness ==
    /\ applied = 4
    /\ last_guesser = 2
    /\ connected[1] /\ connected[2]

\* C4 as claimed: whenever phase changes to GameOver, the display has no '_'
\* left or (position_idx, pass_num) = (0, 5).
C4_GameOverOnlyAtEnd ==
    [][(phase # PHASE_GAME_OVER /\ phase' = PHASE_GAME_OVER) =>
           \/ ~HasUnderscore(display')
           \/ (position_idx' = 0 /\ pass_num' = MAX_PASSES)]_vars

\* C4 as amended: whenever phase changes to GameOver, the display has no '_'
\* left, or (position_idx, pass_num) = (0, 5), or a guesser slot is marked
\* disconnected; the indices are within their bounds at that moment.
C4_GameOverAtEndOrDisconnect ==
    [][(phase # PHASE_GAME_OVER /\ phase' = PHASE_GAME_OVER) =>
           /\ \/ ~HasUnderscore(display')
              \/ (position_idx' = 0 /\ pass_num' = MAX_PASSES)
              \/ ~connected[1]
              \/ ~connected[2]
           /\ position_idx' \in 0 .. (WORD_LEN - 1)
           /\ pass_num' \in 0 .. MAX_PASSES]_vars

C4_Witness ==
    /\ phase = PHASE_GAME_OVER
    /\ ~connected[2]
    /\ HasUnderscore(display)
    /\ pass_num < MAX_PASSES
    /\ applied > 0

\* C5: without shutdown and with the scheduler running, a guesser slot that is
\* disconnected while phase is InProgress leads to phase GameOver, and phase
\* GameOver leads to phase WaitingWord with the wordmaster's gate posted.
C5_DisconnectEndsMatch ==
    /\ (phase = PHASE_IN_PROGRESS /\ (~connected[1] \/ ~connected[2]))
           ~> (phase = PHASE_GAME_OVER)
    /\ (phase = PHASE_GAME_OVER)
           ~> (phase = PHASE_WAITING_WORD /\ turn_sem[0] > 0)

C5_Witness ==
    /\ phase = PHASE_WAITING_WORD
    /\ turn_sem[0] > 0
    /\ ~connected[2]
    /\ player_name[2] # << >>
    /\ connected[0] /\ connected[1]
    /\ game_number = 1

\* payload of a line after a prefix of n characters is exactly k letters
IsLetter(c) == (c >= 65 /\ c <= 90) \/ (c >= 97 /\ c <= 122)

ExactlyLetters(line, n, k) ==
    /\ Len(Skip(line, n)) = k
    /\ \A i \in 1 .. k : IsLetter(Skip(line, n)[i])

\* C6 as claimed: every WORD line whose payload is not exactly 5 letters is
\* answered with ERR and leaves phase = WaitingWord and secret_word unchanged.
C6_MalformedWordRejected ==
    [][\A line \in WordLines :
          (WmLine(line) /\ IsWordLine(line) /\ ~ExactlyLetters(line, 5, WORD_LEN)) =>
              /\ sock'[0].kind = "ERR_WORD"
              /\ phase' = PHASE_WAITING_WORD
              /\ secret_word' = secret_word]_vars

\* C7 as claimed: a GUESS line is applied only if its payload is exactly one
\* letter; any other payload is answered with ERR, applies no guess and leaves
\* the guesser reading.
C7_OnlySingleLetterApplied ==
    [][\A p \in Guessers : \A line \in GuessLines :
          (GsLine(p, line) /\ ~ExactlyLetters(line, 6, 1) /\ ~GsRace(p, line)) =>
              /\ sock'[p].kind \in {"ERR_GUESS", "ERR_EXPECTED_GUESS"}
              /\ applied' = applied
              /\ shared' = shared
              /\ pc'[p] = "recv"]_vars

\* the step handles a client line of p on an ERR path: it writes an ERR line
\* to p's client, or it is the rest of the "Not your turn (race)" path
ErrKinds == {"ERR_WORD", "ERR_EXPECTED_WORD", "ERR_GUESS", "ERR_EXPECTED_GUESS",
             "ERR_RACE"}

HandlesErr(p) ==
    \/ sock'[p] # sock[p] /\ sock'[p].kind \in ErrKinds
    \/ pc[p] = "race" /\ pc'[p] # "race"

\* C8 as claimed: handling a line on an ERR path changes no field of the
\* shared game state.
C8_ErrChangesNothing ==
    [][\A p \in Players : HandlesErr(p) => shared' = shared]_vars

\* C8 as amended: handling a line on an ERR path changes no field of the
\* shared game state other than guess_count_for_pos, and that one only on the
\* "Not your turn (race)" path, which resets it to 0.
C8_ErrChangesOnlyGate ==
    [][\A p \in Players : HandlesErr(p) =>
          /\ <<phase, connected, current_turn, position_idx, score, pass_num,
               secret_word, display, player_name, game_number>>' =
             <<phase, connected, current_turn, position_idx, score, pass_num,
               secret_word, display, player_name, game_number>>
          /\ guess_count_for_pos' # guess_count_for_pos =>
                (pc[p] = "race" /\ guess_count_for_pos' = 0)]_vars

C8_Witness ==
    \E p \in Guessers :
        /\ sock[p].kind = "ERR_RACE"
        /\ pc[p] # "race"
        /\ guess_count_for_pos = 0
        /\ phase = PHASE_GAME_OVER

C10_RevealEndsMatch ==
    /\ [][(applied' = applied + 1 /\ HasUnderscore(display)
           /\ ~HasUnderscore(display')) =>
              /\ phase' = PHASE_GAME_OVER
              /\ display' = secret_word']_vars
    /\ [](applied = WORD_LEN /\ score[1] + score[2] = WORD_LEN =>
              phase = PHASE_GAME_OVER /\ display = secret_word)

C10_Witness ==
    /\ phase = PHASE_GAME_OVER
    /\ applied = WORD_LEN
    /\ display = secret_word
    /\ score[1] + score[2] = WORD_LEN

\* the step of guesser p that formats and sends the GAME_OVER line
SendsGameOver(p) == pc[p] = "over" /\ pc'[p] # "over"

\* the step that applies the final guess of a match
FinalGuess == applied' = applied + 1 /\ phase' = PHASE_GAME_OVER

\* C11: the winner in the GAME_OVER line is fixed by the two match scores as
\* they are when the final guess is applied (PLAYER1 iff score[1] > score[2],
\* PLAYER2 iff score[2] > score[1], DRAW iff equal): the handler keeps those
\* scores from the final guess to the line, whatever the scheduler resets.
C11_WinnerFromFinalScores ==
    /\ [][FinalGuess =>
              /\ pc'[last_guesser'] = "over"
              /\ loc'[last_guesser'].s1 = score'[1]
              /\ loc'[last_guesser'].s2 = score'[2]]_vars
    /\ [][\A p \in Guessers :
              (pc[p] = "over" /\ ~SendsGameOver(p)) => loc'[p] = loc[p]]_vars
    /\ [][\A p \in Guessers : SendsGameOver(p) =>
              /\ sock'[p].kind = "GAME_OVER"
              /\ (sock'[p].winner = "PLAYER1") <=> (loc[p].s1 > loc[p].s2)
              /\ (sock'[p].winner = "PLAYER2") <=> (loc[p].s2 > loc[p].s1)
              /\ (sock'[p].winner = "DRAW") <=> (loc[p].s1 = loc[p].s2)]_vars

\* a GAME_OVER line formatted after the scheduler's reset still names the winner
C11_Witness ==
    \E p \in Guessers :
        /\ sock[p].kind = "GAME_OVER"
        /\ sock[p].winner = "PLAYER1"
        /\ sock[p].passes = 0
        /\ score[1] = 0 /\ score[2] = 0

\* the scheduler's step that closes a finished match
ClosesMatch == phase = PHASE_GAME_OVER /\ phase' = PHASE_WAITING_WORD

\* C12 as claimed: every match that reaches GameOver gets exactly one
\* GAME_OVER line: when the scheduler closes the match, a handler has sent
\* the line or is about to send it, and never two handlers are about to.
C12_OneGameOverLine ==
    /\ [][ClosesMatch =>
              \E p \in Guessers : pc[p] = "over" \/ sock[p].kind = "GAME_OVER"]_vars
    /\ [][\A p \in Guessers : SendsGameOver(p) => pc[Other(p)] # "over"]_vars

\* C13 as claimed: between the final guess and the formatting of the
\* GAME_OVER line no context changes display or pass_num, so the line's
\* display= and passes= are those of the final guess: the display is fully
\* revealed or passes = 5.
C13_GameOverFieldsStable ==
    /\ [][(\E p \in Guessers : pc[p] = "over") =>
              (display' = display /\ pass_num' = pass_num)]_vars
    /\ [][\A p \in Guessers : SendsGameOver(p) =>
              \/ ~HasUnderscore(sock'[p].display)
              \/ sock'[p].passes = MAX_PASSES]_vars

\* C14: every write to a field of the shared game state is made by the
\* context that holds game_mtx, and no two contexts are inside a game_mtx
\* section at the same time.
C14_WritesUnderMutex ==
    /\ last_write.field \in GameFields => last_write.held
    /\ Cardinality({c \in Contexts : mx_pc[c].at = "in"}) <= 1

C14_Witness ==
    /\ last_write.ctx = "guesser1"
    /\ last_write.field = "guess_count_for_pos"
    /\ last_write.held
    /\ mx_pc["sched"].at = "in"
    /\ mx_pc["sched"].sec = "game_over"

\* C15: the outbound queue never holds more than its capacity; a producer at
\* the test for a free slot can always take its step, and on a full queue
\* that step returns at once, the message is discarded, and the slots, head,
\* tail and item count stay as they are.
C15_DropNewWhenFull ==
    /\ [](out_held <= OutCap /\ out_items <= out_held)
    /\ [](\A p \in Guessers : out_pc[p].at = "reserve" => ENABLED OutTryWait(p))
    /\ [][\A p \in Guessers :
              (out_pc[p].at = "reserve" /\ out_pc'[p] # out_pc[p] /\ out_spaces = 0) =>
                  /\ out_pc'[p] = OutIdle("dropped")
                  /\ UNCHANGED <<outq, out_head, out_tail, out_items, out_spaces,
                                 out_held>>]_vars

C15_Witness ==
    \E p \in Guessers :
        /\ out_pc[p] = OutIdle("dropped")
        /\ out_held = OutCap
        /\ out_spaces = 0

IsPrefix(s, t) == Len(s) <= Len(t) /\ s = SubSeq(t, 1, Len(s))

\* the events put into slots and not yet taken out by the logger
LogHeld == Len(log_enq) - Len(log_file) - (IF log_pc["logger"].at = "print" THEN 1 ELSE 0)

\* C16: the lines of the log are the events in the order they were put into
\* the queue, none missing in between and none twice; the queue never holds
\* more than its capacity; a producer that finds the queue full stays in
\* log_enqueuef until a slot is free and never gives its event up.
C16_LogQueueLossless ==
    /\ [](IsPrefix(log_file, log_enq) /\ LogHeld <= LogCap)
    /\ [][\A c \in LogProducers :
              (log_pc[c].at = "reserve" /\ log_spaces = 0) =>
                  log_pc'[c].at \in {"reserve", "write"}]_vars

\* C17: the logger has never exited while an event put into the queue is not
\* in the log, and once the shutdown flag is set the logger exits.
C17_LoggerFlushesBeforeExit ==
    /\ [](log_pc["logger"].at = "done" => log_file = log_enq)
    /\ shutting_down ~> (log_pc["logger"].at = "done")

\* C18: scores_load on the file scores_save has written gives slots 1 and 2
\* the wins and names that were saved, whatever names the players gave in
\* their NAME lines.
C18_ScoreRoundTrip ==
    probe.result = "loaded" =>
        \A pid \in Guessers : probe.loaded[pid] = probe.table[pid]

\* the wins the end-of-match rule gives a table for the match scores s1, s2
WinsAfter(table, s1, s2) ==
    [pid \in Guessers |->
        table[pid].wins + (IF (pid = 1 /\ s1 > s2) \/ (pid = 2 /\ s2 > s1) THEN 1 ELSE 0)]

\* C19: every step that ends a match leaves a guesser handler about to update
\* the score table; that handler adds one win to the slot with the higher
\* match score and none on a draw, and rewrites the file from the table; the
\* table changes at no other step.
C19_TableUpdatedOncePerMatch ==
    /\ [][(phase # PHASE_GAME_OVER /\ phase' = PHASE_GAME_OVER) =>
              \E p \in Guessers : pc[p] # "over" /\ pc'[p] = "over"]_vars
    /\ [][\A p \in Guessers :
              SendsGameOver(p) =>
                  /\ \A pid \in Guessers :
                        score_table'[pid].wins = WinsAfter(score_table, loc[p].s1, loc[p].s2)[pid]
                  /\ scores_file' = scores_save(score_table')]_vars
    /\ [][score_table' # score_table => \E p \in Guessers : SendsGameOver(p)]_vars

\* C20: game_number never decreases, and the step that leaves GameOver for
\* the next match (WaitingWord or InProgress) makes it strictly larger.
C20_GameNumberIncreases ==
    /\ [][game_number' >= game_number]_vars
    /\ [][(phase = PHASE_GAME_OVER
              /\ phase' \in {PHASE_WAITING_WORD, PHASE_IN_PROGRESS}) =>
              game_number' > game_number]_vars

\* a guess of guesser p is applied by this step
AppliesGuess(p) == applied' = applied + 1 /\ last_guesser' = p

\* C21: a guess of guesser 1 that does not end the match leaves the position
\* and the pass as they are, so that guesser 2 guesses at the same position,
\* and only the guess of guesser 2 moves on to the next position.
C21_PositionContestedByBoth ==
    /\ [][(AppliesGuess(1) /\ phase' = PHASE_IN_PROGRESS) =>
              (position_idx' = position_idx /\ pass_num' = pass_num)]_vars
    /\ [][(AppliesGuess(2) /\ phase' = PHASE_IN_PROGRESS) =>
              position_idx' = AdvancedPos(position_idx)]_vars

\* the scheduler posts the gate of guesser p in this step
PostsGate(p) == turn_sem'[p] > turn_sem[p]

\* C22: while a match is in progress with both guessers connected, a guess is
\* applied after exactly one post of a guesser gate since the previous guess
\* (or since the match started), and there is never a second post however
\* often the scheduler polls; a guesser gate is posted only in phase
\* InProgress, one token at a time, and it is the gate of current_turn.
C22_OnePostPerTurn ==
    /\ [][(applied' = applied + 1 /\ connected[1] /\ connected[2]) => gate_posts = 1]_vars
    /\ []((phase = PHASE_IN_PROGRESS /\ connected[1] /\ connected[2]) => gate_posts <= 1)
    /\ [][\A p \in Guessers :
              PostsGate(p) =>
                  /\ phase = PHASE_IN_PROGRESS
                  /\ turn_sem'[p] = turn_sem[p] + 1
                  /\ current_turn' = p
                  /\ current_turn \in Guessers => current_turn = p]_vars

C22_Witness ==
    /\ phase = PHASE_IN_PROGRESS
    /\ applied = 3
    /\ gate_posts = 1
    /\ guess_count_for_pos = 1
    /\ current_turn = 2
    /\ pc[2] = "recv"
    /\ connected[1] /\ connected[2]


\* the step is taken by the handler of guesser p
GuesserStep(p) == pc'[p] # pc[p] \/ sock'[p] # sock[p] \/ loc'[p] # loc[p]

\* the fields of the match a guess decides
MatchFields == <<score, display, position_idx, pass_num, current_turn, phase>>

\* C23: a guesser handler changes score, display, position_idx, pass_num,
\* current_turn or phase only in the step that applies its guess, which it
\* takes after consuming a token of its own gate and with phase InProgress and
\* current_turn equal to its id; every entry into a turn consumes one token of
\* the handler's gate and every applied guess ends that turn, so one token
\* leads to at most one applied guess.
C23_GuessOnlyOnOwnTurn ==
    /\ [][\A p \in Guessers :
              (GuesserStep(p) /\ MatchFields' # MatchFields) =>
                  /\ pc[p] = "recv"
                  /\ phase = PHASE_IN_PROGRESS
                  /\ current_turn = p
                  /\ AppliesGuess(p)]_vars
    /\ [][\A p \in Guessers :
              (pc'[p] \in {"recv", "prompt_failed"} /\ pc[p] # pc'[p]) =>
                  (pc[p] = "wait" /\ turn_sem'[p] = turn_sem[p] - 1)]_vars
    /\ [][\A p \in Guessers :
              AppliesGuess(p) => (pc[p] = "recv" /\ pc'[p] # "recv")]_vars

C23_Witness ==
    /\ applied = 2
    /\ last_guesser = 2
    /\ phase = PHASE_IN_PROGRESS
    /\ current_turn = 1
    /\ position_idx = 2
    /\ pc[2] = "wait"
    /\ turn_sem[2] = 0


\* the step is taken by the scheduler thread (or is the signal handler): no
\* session moves
SchedulerStep == pc' = pc /\ sock' = sock /\ loc' = loc

\* the step is taken by the handler of the wordmaster
WordmasterStep == pc'[0] # pc[0] \/ sock'[0] # sock[0]

\* C24: the phase changes only along WaitingPlayers -> WaitingWord (scheduler,
\* all three slots connected), WaitingWord -> InProgress (wordmaster accepting
\* a valid word), InProgress -> GameOver (a guesser whose applied guess ends
\* the match, or the scheduler when a guesser slot is disconnected) and
\* GameOver -> WaitingWord (scheduler); no step of the scheduler leaves
\* WaitingWord.
C24_PhaseEdges ==
    /\ [][phase' # phase =>
            \/ /\ phase = PHASE_WAITING_PLAYERS /\ phase' = PHASE_WAITING_WORD
               /\ SchedulerStep
               /\ connected[0] /\ connected[1] /\ connected[2]
            \/ /\ phase = PHASE_WAITING_WORD /\ phase' = PHASE_IN_PROGRESS
               /\ WordmasterStep
               /\ pc[0] = "recv"
               /\ sock'[0] = Line("OK")
               /\ is_valid_word(secret_word')
            \/ /\ phase = PHASE_IN_PROGRESS /\ phase' = PHASE_GAME_OVER
               /\ \/ \E p \in Guessers :
                        AppliesGuess(p) /\ IsEndOfGame(display', pass_num')
                  \/ SchedulerStep /\ \E p \in Guessers : ~connected[p]
            \/ /\ phase = PHASE_GAME_OVER /\ phase' = PHASE_WAITING_WORD
               /\ SchedulerStep]_vars
    /\ [][(phase = PHASE_WAITING_WORD /\ SchedulerStep) => phase' = PHASE_WAITING_WORD]_vars

C24_Witness ==
    /\ phase = PHASE_WAITING_WORD
    /\ TableWins = 1
    /\ game_number = 1
    /\ turn_sem[0] = 1
    /\ sched_pc = "run"


\* C25: the gate of the wordmaster is posted once by every step that enters
\* WaitingWord and by no other step; it never holds more than one token; a
\* secret word is installed only by a wordmaster that took a token of its
\* gate and then saw phase WaitingWord under the mutex, and installing the
\* word ends that turn, so one token installs at most one word.
C25_WordmasterGate ==
    /\ [][(phase # PHASE_WAITING_WORD /\ phase' = PHASE_WAITING_WORD) =>
              turn_sem'[0] = turn_sem[0] + 1]_vars
    /\ [][turn_sem'[0] > turn_sem[0] =>
              (phase # PHASE_WAITING_WORD /\ phase' = PHASE_WAITING_WORD)]_vars
    /\ [](turn_sem[0] <= 1)
    /\ [][(pc'[0] = "recv" /\ pc[0] # "recv") =>
              /\ pc[0] = "wait"
              /\ turn_sem'[0] = turn_sem[0] - 1
              /\ phase = PHASE_WAITING_WORD]_vars
    /\ [][(secret_word' # secret_word /\ secret_word' # << >>) =>
              /\ pc[0] = "recv"
              /\ pc'[0] # "recv"
              /\ phase = PHASE_WAITING_WORD]_vars

C25_Witness ==
    /\ phase = PHASE_IN_PROGRESS
    /\ secret_word # << >>
    /\ turn_sem[0] = 0
    /\ pc[0] = "wait"
    /\ applied = 1


\* C26: the step of the scheduler from GameOver to WaitingWord leaves display
\* all '_', both guesser scores 0, position_idx 0, pass_num 0, current_turn 0,
\* secret_word empty and the gate flag guess_count_for_pos clear, and does not
\* touch score_table, connected, player_name or game_number.
C26_ResetOnGameOver ==
    [][(phase = PHASE_GAME_OVER /\ phase' = PHASE_WAITING_WORD) =>
          /\ display' = AllUnderscore
          /\ score'[1] = 0 /\ score'[2] = 0
          /\ position_idx' = 0
          /\ pass_num' = 0
          /\ current_turn' = 0
          /\ secret_word' = << >>
          /\ guess_count_for_pos' = 0
          /\ score_table' = score_table
          /\ connected' = connected
          /\ player_name' = player_name
          /\ game_number' = game_number]_vars

C26_Witness ==
    /\ phase = PHASE_WAITING_WORD
    /\ TableWins = 1
    /\ display = AllUnderscore
    /\ score[1] = 0 /\ score[2] = 0
    /\ secret_word = << >>
    /\ pass_num = 0
    /\ pc[0] = "recv"


\* C27: in the state right after every step from WaitingWord to InProgress,
\* secret_word is the upper-cased word of a WORD line the handler validated,
\* display is all '_', both guesser scores are 0, position_idx and pass_num
\* are 0, current_turn is 1 and the gate flag guess_count_for_pos is clear.
C27_MatchStartState ==
    [][(phase = PHASE_WAITING_WORD /\ phase' = PHASE_IN_PROGRESS) =>
          /\ \E line \in WordLines :
                /\ IsWordLine(line)
                /\ is_valid_word(NormalizeWord(line))
                /\ secret_word' = NormalizeWord(line)
          /\ display' = AllUnderscore
          /\ score'[1] = 0 /\ score'[2] = 0
          /\ position_idx' = 0
          /\ pass_num' = 0
          /\ current_turn' = 1
          /\ guess_count_for_pos' = 0]_vars

\* a later match has just started: the previous one ended in a draw and was reset
C27_Witness ==
    /\ phase = PHASE_IN_PROGRESS
    /\ \E p \in Guessers : sock[p].kind = "GAME_OVER"
    /\ applied = 0
    /\ gate_posts = 0
    /\ display = AllUnderscore
    /\ score[1] = 0 /\ score[2] = 0
    /\ current_turn = 1


\* C28: secret_word receives a non-empty value only in a step taken with
\* phase WaitingWord, no step taken with phase InProgress changes it, and in
\* every state with phase InProgress it is exactly WORD_LEN letters 'A' .. 'Z'.
C28_SecretWordStable ==
    /\ [][(secret_word' # secret_word /\ secret_word' # << >>) =>
              phase = PHASE_WAITING_WORD]_vars
    /\ [][phase = PHASE_IN_PROGRESS => secret_word' = secret_word]_vars
    /\ [](phase = PHASE_IN_PROGRESS =>
              /\ Len(secret_word) = WORD_LEN
              /\ \A i \in 1 .. WORD_LEN : secret_word[i] >= 65 /\ secret_word[i] <= 90)

C28_Witness ==
    /\ phase = PHASE_IN_PROGRESS
    /\ Len(secret_word) = WORD_LEN
    /\ pass_num = 1
    /\ applied = 6
    /\ display # AllUnderscore


\* the match is being played or has just ended
InMatch(ph) == ph \in {PHASE_IN_PROGRESS, PHASE_GAME_OVER}

\* C29: in every state with phase InProgress or GameOver the display has
\* WORD_LEN characters, each of them '_' or the letter of secret_word at that
\* position; while the match lasts a revealed position keeps its letter.
C29_DisplayMask ==
    /\ [](InMatch(phase) =>
              /\ Len(display) = WORD_LEN
              /\ \A i \in 1 .. WORD_LEN :
                    display[i] = Underscore \/ display[i] = secret_word[i])
    /\ [][(InMatch(phase) /\ InMatch(phase')) =>
              \A i \in 1 .. WORD_LEN :
                  display[i] # Underscore => display'[i] = display[i]]_vars

C29_Witness ==
    /\ phase = PHASE_IN_PROGRESS
    /\ display[1] # Underscore
    /\ display[2] = Underscore
    /\ display[3] # Underscore
    /\ pass_num = 1


\* the handler of guesser p leaves its turn because the send of the prompt or
\* the read of the guess failed
TurnIoFails(p) ==
    \/ pc[p] = "prompt_failed" /\ pc'[p] # "prompt_failed"
    \/ pc[p] = "recv" /\ pc'[p] = "epilogue" /\ sock'[p] = sock[p]

\* C30: when the send of the prompt or the read of the guess fails during the
\* turn of a guesser, the handler marks its slot disconnected and clears the
\* gate flag guess_count_for_pos, changes none of phase, secret_word, display,
\* score, position_idx, pass_num and current_turn, applies no guess, and goes
\* to the epilogue of the session, from which it only terminates.
C30_TurnIoFailure ==
    /\ [][\A p \in Guessers :
              TurnIoFails(p) =>
                  /\ connected' = [connected EXCEPT ![p] = FALSE]
                  /\ guess_count_for_pos' = 0
                  /\ UNCHANGED <<phase, secret_word, display, score, position_idx,
                                 pass_num, current_turn>>
                  /\ UNCHANGED <<applied, last_guesser>>
                  /\ pc'[p] = "epilogue"]_vars
    /\ [][\A p \in Guessers :
              /\ pc[p] = "epilogue" => pc'[p] \in {"epilogue", "done"}
              /\ pc[p] = "done" => pc'[p] = "done"]_vars

C30_Witness ==
    /\ phase = PHASE_IN_PROGRESS
    /\ current_turn = 2
    /\ applied = 1
    /\ pc[2] = "done"
    /\ ~connected[2]
    /\ connected[1]
    /\ guess_count_for_pos = 0
    /\ turn_sem[2] = 0


\* C31: with three connected clients, no shutdown, fair scheduling of the
\* scheduler thread and of the handlers, and prompted guessers that eventually
\* send a good guess, every match that is in progress reaches GameOver, and
\* every GameOver is followed by WaitingWord with the wordmaster prompted.
C31_NoStuckTurns ==
    /\ (phase = PHASE_IN_PROGRESS) ~> (phase = PHASE_GAME_OVER)
    /\ (phase = PHASE_GAME_OVER)
           ~> (phase = PHASE_WAITING_WORD /\ pc[0] = "recv" /\ sock[0] = Line("ENTER_WORD"))

\* a match was played to its end and reset, and the wordmaster is prompted again
C31_Witness ==
    /\ phase = PHASE_WAITING_WORD
    /\ pc[0] = "recv"
    /\ sock[0] = Line("ENTER_WORD")
    /\ \E p \in Guessers : sock[p].kind = "GAME_OVER"
    /\ connected[0] /\ connected[1] /\ connected[2]


\* the message the draining handler has copied out of its slot and not yet sent
OutInHand == IF out_pc[0].at = "free" THEN 1 ELSE 0

\* C32: under every interleaving of the two producers and the draining
\* handler, the lines sent to the client are the messages written to the
\* queue, in the order they were written, none missing in between and none
\* twice; every written message is sent, held in a slot or in the hand of the
\* drain; and the drain copies a slot only after a producer has completely
\* written it, so what it copies is the oldest message not yet taken.
C32_OutQueueFifo ==
    /\ [](IsPrefix(out_sent, out_enq))
    /\ [](Len(out_enq) = Len(out_sent) + OutInHand + out_held)
    /\ [][(out_pc[0].at = "read" /\ out_pc'[0].at = "free") =>
              /\ out_held >= 1
              /\ Len(out_enq) > Len(out_sent)
              /\ out_pc'[0].msg = out_enq[Len(out_sent) + 1]]_vars

\* four lines of both kinds were sent, the queue wrapped round, and one more
\* message was dropped on the way
C32_Witness ==
    /\ Len(out_sent) = 4
    /\ out_sent[1] # out_sent[2]
    /\ out_sent[3] # out_sent[4]
    /\ out_calls = MaxOutCalls
    /\ \E p \in Guessers : out_pc[p] = OutIdle("dropped")


\* the mutexes context c holds
LkHeld(c) == {lk_pc[c].held[i] : i \in 1 .. Len(lk_pc[c].held)}

\* the mutexes context c is still to take before it unlocks
LkWanted(c) == {lk_pc[c].want[i] : i \in 1 .. Len(lk_pc[c].want)}

\* the context that c waits for: the holder of the mutex c is blocked on while
\* it holds another one
LkWaitsFor(c) ==
    IF lk_pc[c].held # << >> /\ lk_pc[c].want # << >>
          /\ lk_owner[Head(lk_pc[c].want)] # "free"
    THEN lk_owner[Head(lk_pc[c].want)]
    ELSE "none"

\* c is on a chain of at most k waits that comes back to d
RECURSIVE LkChain(_, _, _)
LkChain(c, d, k) ==
    /\ k > 0
    /\ LkWaitsFor(c) # "none"
    /\ \/ LkWaitsFor(c) = d
       \/ LkChain(LkWaitsFor(c), d, k - 1)

InnerOnly == {"log", "out0", "out1", "out2"}

\* C33: no context holds game_mtx and score_mtx together or takes one while
\* it holds the other; a context that holds log_mtx or an out_mtx takes no
\* further mutex; no set of contexts waits for each other in a circle; and a
\* context that holds score_mtx, for the table or for the file, is never the
\* holder of game_mtx, so a wait on game_mtx never lasts as long as score I/O.
C33_LockOrder ==
    /\ \A c \in LockContexts :
          /\ ~({"game", "score"} \subseteq (LkHeld(c) \cup LkWanted(c)))
          /\ LkHeld(c) \cap InnerOnly # {} => lk_pc[c].want = << >>
          /\ Cardinality(LkHeld(c) \cap InnerOnly) <= 1
          /\ ~LkChain(c, c, Cardinality(LockContexts))
    /\ lk_owner["score"] # "free" => lk_owner["game"] # lk_owner["score"]
    /\ \A m \in Mutexes : \A c \in LockContexts : lk_owner[m] = c <=> m \in LkHeld(c)

\* the scheduler waits for log_mtx inside its game_mtx section while the
\* logger holds it, a guesser saves the scores and the other one enqueues
C33_Witness ==
    /\ lk_pc["sched"] = [held |-> <<"game">>, want |-> <<"log">>]
    /\ lk_owner["log"] = "logger"
    /\ lk_owner["score"] = "guesser1"
    /\ lk_owner["out0"] = "guesser2"


\* the handler of guesser p has applied the guess that ended a match and has
\* not yet enqueued the GAME_OVER line of that match
GameOverPending(p) == pc[p] = "over"

\* C34: the handler that ends a match enqueues GAME_OVER right after the STATE
\* line of its final guess, and no STATE line of the following match is
\* enqueued (by the handler that applies a guess of that match) while the
\* GAME_OVER line of the match before is still to be enqueued.
C34_GameOverBeforeNextState ==
    /\ [][\A p \in Guessers : SendsGameOver(p) => sock[p] = Line("STATE")]_vars
    /\ [][\A q \in Guessers : AppliesGuess(q) => ~GameOverPending(Other(q))]_vars


\* number of positions of the display that show a letter
Revealed == Cardinality({i \in 1 .. Len(display) : display[i] # Underscore})

\* C35: in every state of a match (phase InProgress, or GameOver before the
\* reset) the number of revealed positions is at most score[1] + score[2],
\* which is at most WORD_LEN * pass_num + position_idx, which is the number of
\* guesses applied so far in the match and at most WORD_LEN * MAX_PASSES; no
\* score is negative.
C35_ScoreAccounting ==
    InMatch(phase) =>
        /\ Revealed <= score[1] + score[2]
        /\ score[1] + score[2] <= WORD_LEN * pass_num + position_idx
        /\ WORD_LEN * pass_num + position_idx = applied
        /\ applied <= WORD_LEN * MAX_PASSES
        /\ score[1] >= 0 /\ score[2] >= 0

\* a position was revealed a second time: more points than revealed positions
C35_Witness ==
    /\ phase = PHASE_IN_PROGRESS
    /\ Revealed = 2
    /\ score[1] + score[2] = 3
    /\ pass_num = 1
    /\ position_idx = 2
    /\ applied = 7


\* the handler of the wordmaster has left its loop and its slot is marked
\* disconnected
WordmasterGone == ~connected[0] /\ pc[0] \in {"epilogue", "done"}

\* C36: a wordmaster whose read failed while it was prompted is marked
\* disconnected with phase WaitingWord; its slot stays disconnected; and with
\* the wordmaster gone no step takes the phase out of WaitingWord, so the
\* phase never becomes InProgress again.
C36_WordmasterGoneStaysWaiting ==
    /\ []((pc[0] = "epilogue" /\ ~connected[0]) => phase = PHASE_WAITING_WORD)
    /\ [][WordmasterGone => WordmasterGone']_vars
    /\ [][(WordmasterGone /\ phase = PHASE_WAITING_WORD) =>
              phase' = PHASE_WAITING_WORD]_vars

\* the wordmaster left after a match was played; both guessers are still there
C36_Witness ==
    /\ phase = PHASE_WAITING_WORD
    /\ pc[0] = "done"
    /\ ~connected[0]
    /\ connected[1] /\ connected[2]
    /\ \E p \in Guessers : sock[p].kind = "GAME_OVER"
    /\ turn_sem[0] = 0
    /\ ~shutting_down

====
